---- MODULE Spec2Model ----
(***************************************************************************)
(* Model of the memflow plugin registry: the content-addressed object      *)
(* store (Storage: upload / download / delete / new) and the in-memory     *)
(* plugin catalog (PluginDatabase: insert_all / delete_by_digest /         *)
(* plugin_variants / plugins / find_by_digest).                            *)
(*                                                                         *)
(* Request handlers are asynchronous tasks; a task's position (pc) moves   *)
(* from one file-system or lock operation to the next, so tasks interleave *)
(* exactly where the handlers touch shared state (the root directory and   *)
(* the RwLock-protected database).                                         *)
(***************************************************************************)
EXTENDS Integers, Sequences, FiniteSets, TLC

(***************************************************************************)
(* Bounds of the model.                                                    *)
(***************************************************************************)
\* number of request handlers that may be in flight at the same time
NumTasks == 2
\* number of wall-clock readings Utc::now() may return (the realtime clock
\* is not monotonic and two readings may coincide)
MaxTime == 2
\* number of fragments a plugin URI handed to the parser is put together from
MaxUriTokens == 5

\* number of characters of a signature string handed to the verifier
MaxSigChars == 4

\* number of files a bulk catalog is built from (more than
\* MAX_PLUGIN_VARIANTS, so that one name holds more variants than a query
\* may return)
MaxVariants == 52

Tasks == 1..NumTasks
\* the readings, in nanoseconds after a full second: a whole microsecond
\* (one reading in a thousand of a clock with nanosecond resolution) and the
\* nanoseconds that follow it
Times == {999 + i : i \in 1..MaxTime}

(***************************************************************************)
(* Program constants.                                                      *)
(***************************************************************************)
DEFAULT_PLUGIN_VARIANTS == 5
MAX_PLUGIN_VARIANTS == 50

(***************************************************************************)
(* Uploaded binaries.  A binary is described by what goblin's Object::parse*)
(* sees in it: the container kind and, per slice, the architecture and the *)
(* exported MEMFLOW_ descriptors.                                          *)
(***************************************************************************)
Export(n, pv, v, d) ==
    [name |-> n, plugin_version |-> pv, version |-> v, description |-> d,
     resolves |-> TRUE, below_base |-> FALSE, near_max |-> FALSE]

Slice(a, exps) ==
    [arch |-> a, little_endian |-> TRUE, parses |-> TRUE, archive |-> FALSE,
     exports |-> exps]

\* 1: PE x86_64 exporting one connector, plugin_version 1
\* 2: ELF x86_64 exporting two plugins with different names, plugin_version 2
\* 3: fat Mach-O, arm64 and x86_64 slices both exporting "native"
\* 4: not a binary at all
\* 5: crafted PE whose descriptor records carry different plugin_version
\*    values, two of them under the same name
\* 6: PE x86_64 without any export of the plugin prefix (a library that is
\*    no plugin)
\* 7: fat Mach-O whose arm64 slice cannot be parsed (multiarch.get fails on
\*    it) and whose x86_64 slice exports "native"
\* 8: crafted PE with three descriptor records, the version pointer of the
\*    second one null (below the image base)
\* 9: crafted 64-bit ELF whose descriptor record holds a name pointer next
\*    to 2^64
Binaries == {1, 2, 3, 4, 5, 6, 7, 8, 9}

\* binaries a regular build produces (one plugin_version per file), both
\* exporting a plugin named "coredump", under different plugin_versions
RegularBinaries == {1, 2}

Bin(b) ==
    CASE b = 1 -> [kind |-> "PE",
                   slices |-> << Slice("x86_64",
                       << Export("coredump", 1, "0.2.0", "win32 coredump connector") >>) >>]
      [] b = 2 -> [kind |-> "ELF",
                   slices |-> << Slice("x86_64",
                       << Export("coredump", 2, "0.2.1", "coredump connector"),
                          Export("native", 2, "0.2.1", "native os") >>) >>]
      [] b = 3 -> [kind |-> "Fat",
                   slices |-> << Slice("arm64",
                       << Export("native", 2, "0.2.2", "native os") >>),
                                 Slice("x86_64",
                       << Export("native", 2, "0.2.2", "native os") >>) >>]
      [] b = 5 -> [kind |-> "PE",
                   slices |-> << Slice("x86_64",
                       << Export("coredump", 1, "0.3.0", "crafted"),
                          Export("native", 2, "0.3.0", "crafted"),
                          Export("native", 2, "0.3.0", "crafted") >>) >>]
      [] b = 6 -> [kind |-> "PE", slices |-> << Slice("x86_64", << >>) >>]
      [] b = 7 -> [kind |-> "Fat",
                   slices |-> << [Slice("arm64", << >>) EXCEPT !.parses = FALSE],
                                 Slice("x86_64",
                       << Export("native", 2, "0.2.2", "native os") >>) >>]
      [] b = 8 -> [kind |-> "PE",
                   slices |-> << Slice("x86_64",
                       << Export("coredump", 1, "0.3.0", "crafted"),
                          [Export("native", 2, "0.3.0", "crafted")
                              EXCEPT !.resolves = FALSE, !.below_base = TRUE],
                          Export("native", 2, "0.3.0", "crafted") >>) >>]
      [] b = 9 -> [kind |-> "ELF",
                   slices |-> << Slice("x86_64",
                       << [Export("coredump", 1, "0.3.0", "crafted")
                              EXCEPT !.near_max = TRUE] >>) >>]
      [] OTHER -> [kind |-> "Unknown", slices |-> << >>]

Names == {"coredump", "native"}

\* the names in the order of str::cmp
SortedNames == << "coredump", "native" >>

\* sha256::digest(bytes): lowercase hex digest, assumed collision free
Digest(b) ==
    CASE b = 1 -> "d1aa0001" [] b = 2 -> "d2bb0002" [] b = 3 -> "d3cc0003"
      [] b = 4 -> "d4dd0004" [] b = 6 -> "d6ff0006"
      [] b = 7 -> "d7ab0007" [] b = 8 -> "d8cd0008" [] b = 9 -> "d9ef0009"
      [] OTHER -> "d5ee0005"

Digests == {Digest(b) : b \in Binaries}

BytesOf(d) == CHOOSE b \in Binaries : Digest(b) = d

\* digest[..7], the first seven characters of a digest
Prefix7(d) ==
    CASE d = "d1aa0001" -> "d1aa000" [] d = "d2bb0002" -> "d2bb000"
      [] d = "d3cc0003" -> "d3cc000" [] d = "d4dd0004" -> "d4dd000"
      [] d = "d6ff0006" -> "d6ff000" [] d = "d7ab0007" -> "d7ab000"
      [] d = "d8cd0008" -> "d8cd000" [] d = "d9ef0009" -> "d9ef000"
      [] OTHER -> "d5ee000"

\* the characters of the strings that are sliced or measured (digests are
\* abbreviated to eight characters throughout)
Chars(s) ==
    CASE s = "d1aa0001" -> << "d", "1", "a", "a", "0", "0", "0", "1" >>
      [] s = "d2bb0002" -> << "d", "2", "b", "b", "0", "0", "0", "2" >>
      [] s = "d3cc0003" -> << "d", "3", "c", "c", "0", "0", "0", "3" >>
      [] s = "d4dd0004" -> << "d", "4", "d", "d", "0", "0", "0", "4" >>
      [] s = "d5ee0005" -> << "d", "5", "e", "e", "0", "0", "0", "5" >>
      [] s = "d6ff0006" -> << "d", "6", "f", "f", "0", "0", "0", "6" >>
      [] s = "d7ab0007" -> << "d", "7", "a", "b", "0", "0", "0", "7" >>
      [] s = "d8cd0008" -> << "d", "8", "c", "d", "0", "0", "0", "8" >>
      [] s = "d9ef0009" -> << "d", "9", "e", "f", "0", "0", "0", "9" >>
      [] s = "sig_ok" -> << "s", "i", "g", "_", "o", "k" >>
      [] s = "sig_bad" -> << "s", "i", "g", "_", "b", "a", "d" >>
      [] s = "d2bb00020" -> << "d", "2", "b", "b", "0", "0", "0", "2", "0" >>
      [] s = "d2bb" -> << "d", "2", "b", "b" >>
      [] s = "0.2.0" -> << "0", ".", "2", ".", "0" >>
      [] s = "0.2.1" -> << "0", ".", "2", ".", "1" >>
      [] s = "zz" -> << "z", "z" >>
      [] OTHER -> << >>

\* str::len
StrLen(s) == Len(Chars(s))

\* signatures a client may send; only "sig_ok" verifies against the key
Signatures == {"sig_ok", "sig_bad"}

(***************************************************************************)
(* Results                                                                  *)
(***************************************************************************)
Ok(v) == [ok |-> TRUE, err |-> "", val |-> v]
Err(e) == [ok |-> FALSE, err |-> e, val |-> << >>]

\* the call does not return: the thread panics and unwinds
Panicked == [ok |-> FALSE, err |-> "panicked", val |-> << >>]

(***************************************************************************)
(* SignatureVerifier::is_valid                                             *)
(***************************************************************************)
is_valid(bytes, signature) ==
    IF signature = "sig_ok" THEN Ok(<< >>) ELSE Err("Signature")

(***************************************************************************)
(* State                                                                    *)
(***************************************************************************)
VARIABLES
    plugin_files,        \* root directory: digest -> content of {digest}.plugin
    meta_files,          \* root directory: digest -> content of {digest}.meta
    database,            \* PluginDatabase.plugins: name -> Vec<PluginVariant>
    signature_verifier,  \* Storage.signature_verifier is Some(_)
    up,                  \* the service is running (Storage::new succeeded)
    tasks,               \* the request handlers in flight
    uploaded,            \* history of each digest, see below
    faulted,             \* history: a handler panicked or the process was killed
    response,            \* the last answer given to a read request or library call
    bearer_token,        \* AuthorizationToken.token (MEMFLOW_BEARER_TOKEN)
    overflow_checks,     \* the build panics on integer overflow (cargo's dev profile)
    writes               \* file writes handed to the blocking pool, not yet done

vars == << plugin_files, meta_files, database, signature_verifier, up, tasks,
           uploaded, faulted, response, bearer_token, overflow_checks, writes >>

(***************************************************************************)
(* plugin_analyzer::parse_descriptors and the per-format extractors        *)
(***************************************************************************)
Descriptor(ft, sl, e) ==
    [file_type |-> ft, architecture |-> sl.arch,
     plugin_version |-> e.plugin_version, name |-> e.name,
     version |-> e.version, description |-> e.description]

RECURSIVE ExtractExports(_, _, _, _)
\* one descriptor per accepted export, in iteration order; the first string
\* that cannot be read fails the whole extraction (the `?` on read_string)
ExtractExports(ft, sl, i, acc) ==
    IF i > Len(sl.exports) THEN Ok(acc)
    ELSE IF ~sl.exports[i].resolves THEN Err("Parse")
    ELSE ExtractExports(ft, sl, i + 1, Append(acc, Descriptor(ft, sl, sl.exports[i])))

RECURSIVE pe_exports(_, _, _)
\* pe_va_to_offset computes `va as usize - pe.image_base`: for a pointer
\* below the image base a build with overflow checks panics there; without
\* them the difference wraps, find_offset finds no section, the offset is 0
\* and read_string fails
pe_exports(sl, i, acc) ==
    IF i > Len(sl.exports) THEN Ok(acc)
    ELSE IF sl.exports[i].below_base /\ overflow_checks THEN Panicked
    ELSE IF sl.exports[i].below_base \/ ~sl.exports[i].resolves THEN Err("Parse")
    ELSE pe_exports(sl, i + 1, Append(acc, Descriptor("pe", sl, sl.exports[i])))

pe_parse_descriptors(sl) == pe_exports(sl, 1, << >>)

RECURSIVE elf_exports(_, _, _)
\* read_string gets the pointers of the record as they are: for an offset
\* next to 2^64 `offset + len` overflows (a panic in a build with overflow
\* checks); without the checks the sum wraps below the file length and
\* the slice bytes[offset..offset + len] panics
elf_exports(sl, i, acc) ==
    IF i > Len(sl.exports) THEN Ok(acc)
    ELSE IF sl.exports[i].near_max THEN Panicked
    ELSE IF ~sl.exports[i].resolves THEN Err("Parse")
    ELSE elf_exports(sl, i + 1, Append(acc, Descriptor("elf", sl, sl.exports[i])))

elf_parse_descriptors(sl) ==
    IF ~sl.little_endian THEN Err("NotImplemented")
    ELSE elf_exports(sl, 1, << >>)

macho_parse_descriptors(sl) ==
    IF ~sl.little_endian THEN Err("NotImplemented")
    ELSE ExtractExports("mach", sl, 1, << >>)

RECURSIVE FatSlices(_, _, _)
FatSlices(slices, i, acc) ==
    IF i > Len(slices) THEN Ok(acc)
    ELSE IF ~slices[i].parses THEN FatSlices(slices, i + 1, acc)
    ELSE IF slices[i].archive THEN Err("NotImplemented")
    ELSE LET r == macho_parse_descriptors(slices[i])
         IN  IF ~r.ok THEN r ELSE FatSlices(slices, i + 1, acc \o r.val)

mach_parse_descriptors(bin) ==
    IF bin.kind = "Mach" THEN macho_parse_descriptors(bin.slices[1])
    ELSE FatSlices(bin.slices, 1, << >>)

parse_descriptors(b) ==
    LET bin == Bin(b)
    IN  CASE bin.kind = "PE" -> pe_parse_descriptors(bin.slices[1])
          [] bin.kind \in {"Mach", "Fat"} -> mach_parse_descriptors(bin)
          [] bin.kind = "ELF" -> elf_parse_descriptors(bin.slices[1])
          [] OTHER -> Err("Parse")


\* a file's content: << >> right after File::create, << x >> once the write
\* of x (the bytes of the binary, or the JSON of the metadata) has reached
\* the file, << x, "cut" >> while only a proper prefix of x has, and
\* << x, "tail", n >> for x written over the head of a longer content
EmptyFile == << >>

PartialFile(content) == << content[1], "cut" >>

\* no write is in flight (the writes in flight are a set: a write of the
\* same content to the same file, landing twice, leaves what one leaves)
NoWrites == [plugin |-> {}, meta |-> {}]

EmptyMap == [x \in {} |-> << >>]

Put(f, k, v) == [x \in (DOMAIN f) \cup {k} |-> IF x = k THEN v ELSE f[x]]

Remove(f, k) == [x \in (DOMAIN f) \ {k} |-> f[x]]

\* a digest argument of a request that carries an extension of its own
Dotted(d) == d \o ".x"

\* root.join(digest) followed by set_extension("plugin"): an extension the
\* argument carries is replaced, so the path is {stem}.plugin; the files of
\* the model are keyed by that stem
set_extension(digest) ==
    IF \E d \in Digests : digest = Dotted(d)
    THEN CHOOSE d \in Digests : digest = Dotted(d)
    ELSE digest

\* the digest arguments of delete and download requests for a set of
\* binaries: the digests and the digests with an extension
DigestArgs(S) == {Digest(b) : b \in S} \cup {Dotted(Digest(b)) : b \in S}

\* Path::exists on {digest}.plugin
plugin_exists(d) == d \in DOMAIN plugin_files

PluginMetadata(d, sig, t, descs) ==
    [digest |-> d, signature |-> sig, created_at |-> t, descriptors |-> descs]

\* serde_json::to_string(&metadata) / serde_json::from_str
to_string(metadata) == << metadata >>

\* NaiveDateTime::timestamp_subsec_nanos: the nanoseconds since the last
\* full second
timestamp_subsec_nanos(now) == now % 1000000000

\* chrono's Serialize of the NaiveDateTime created_at: no fraction for
\* whole seconds, else 3, 6 or 9 digits, as many as the nanoseconds need
fraction_digits(now) ==
    LET nano == timestamp_subsec_nanos(now)
    IN  IF nano = 0 THEN 0
        ELSE IF nano % 1000000 = 0 THEN 3
        ELSE IF nano % 1000 = 0 THEN 6
        ELSE 9

\* the characters of the fraction of created_at: none for whole seconds,
\* else the "." and the digits
fraction_len(now) == IF fraction_digits(now) = 0 THEN 0 ELSE 1 + fraction_digits(now)

\* the length of the JSON of a sidecar, counted without the part that all
\* sidecars of one digest share
JsonLen(metadata) == StrLen(metadata.signature) + fraction_len(metadata.created_at)

\* the length of a sidecar on disk
FileLen(content) ==
    IF content = EmptyFile THEN 0
    ELSE IF Len(content) = 1 THEN JsonLen(content[1])
    ELSE content[3]

\* File::write at offset 0 of a file opened by File::create: the bytes
\* replace the head of what the file holds at that moment; a longer file
\* keeps its tail (<< x, "tail", n >>: x followed by the rest of an older
\* JSON, n bytes in all)
write_at_start(old, content) ==
    IF FileLen(old) > JsonLen(content[1])
    THEN << content[1], "tail", FileLen(old) >>
    ELSE content

from_str(content) == IF Len(content) # 1 THEN Err("Parse") ELSE Ok(content[1])

\* no read request has been answered yet
NoResponse == [op |-> "none"]

IdleTask ==
    [op |-> "none", pc |-> "idle", bytes |-> 0, signature |-> "",
     digest |-> "", created_at |-> 0, res |-> "", lock |-> "none",
     unlinked |-> FALSE]

(***************************************************************************)
(* PluginDatabase                                                           *)
(***************************************************************************)
PluginVariant(metadata, descriptor) ==
    [digest |-> metadata.digest, signature |-> metadata.signature,
     created_at |-> metadata.created_at, descriptor |-> descriptor]

\* Ord::cmp on integers (i32 plugin_version, NaiveDateTime created_at)
cmp(a, b) == IF a < b THEN "Less" ELSE IF a > b THEN "Greater" ELSE "Equal"

\* comparator with the plugin_version comparison the wrong way round
search_plugin_version_ascending(metadata, entry) ==
    LET plugin_version ==
            cmp(entry.descriptor.plugin_version,
                metadata.descriptors[1].plugin_version)
    IN  IF plugin_version = "Equal"
        THEN cmp(metadata.created_at, entry.created_at)
        ELSE plugin_version

\* the comparator insert_all hands to the binary search: the metadata's key
\* (first descriptor's plugin_version, created_at) against a stored entry
search_by_plugin_version_and_created_at(metadata, entry) ==
    LET plugin_version ==
            cmp(metadata.descriptors[1].plugin_version,
                entry.descriptor.plugin_version)
    IN  IF plugin_version = "Equal"
        THEN cmp(metadata.created_at, entry.created_at)
        ELSE plugin_version

RECURSIVE binary_search_loop(_, _, _, _)
\* core::slice::binary_search_by: halve [base, base + size) until size = 1
binary_search_loop(entry, metadata, base, size) ==
    IF size <= 1 THEN base
    ELSE LET half == size \div 2
             mid  == base + half
             c    == search_by_plugin_version_and_created_at(metadata, entry[mid + 1])
         IN  binary_search_loop(entry, metadata,
                                IF c = "Greater" THEN base ELSE mid,
                                size - half)

\* Ok(pos) when an entry with an equal key is found, Err(pos) with the
\* insertion position otherwise (positions are 0-based as in the source)
binary_search_by(entry, metadata) ==
    IF Len(entry) = 0 THEN [found |-> FALSE, pos |-> 0]
    ELSE LET base == binary_search_loop(entry, metadata, 0, Len(entry))
             c    == search_by_plugin_version_and_created_at(metadata, entry[base + 1])
         IN  IF c = "Equal" THEN [found |-> TRUE, pos |-> base]
             ELSE [found |-> FALSE, pos |-> base + (IF c = "Less" THEN 1 ELSE 0)]

\* Vec::insert(pos, v), pos 0-based
VecInsert(vec, pos, v) ==
    SubSeq(vec, 1, pos) \o << v >> \o SubSeq(vec, pos + 1, Len(vec))

\* HashMap::entry(name).or_default()
or_default(db, name) == IF name \in DOMAIN db THEN db ELSE Put(db, name, << >>)

RECURSIVE insert_from(_, _, _)
\* the loop of insert_all from the i-th descriptor on; `panicked` is the
\* unreachable!() of the Ok(_) arm, which leaves the earlier insertions
insert_from(db, metadata, i) ==
    IF i > Len(metadata.descriptors) THEN [db |-> db, panicked |-> FALSE]
    ELSE LET descriptor == metadata.descriptors[i]
             db1   == or_default(db, descriptor.name)
             entry == db1[descriptor.name]
             r     == binary_search_by(entry, metadata)
         IN  IF r.found THEN [db |-> db1, panicked |-> TRUE]
             ELSE insert_from(
                    [db1 EXCEPT ![descriptor.name] =
                        VecInsert(entry, r.pos, PluginVariant(metadata, descriptor))],
                    metadata, i + 1)

\* an insertion that stops after the first descriptor
insert_first_only(db, metadata) ==
    insert_from(db, [metadata EXCEPT !.descriptors = SubSeq(@, 1, 1)], 1)

insert_all(db, metadata) == insert_from(db, metadata, 1)

\* the orders in which a directory or a HashMap may enumerate the set S
Orders(S) ==
    {o \in [1..Cardinality(S) -> S] : \A x \in S : \E i \in 1..Cardinality(S) : o[i] = x}

\* position of a name in the order of str::cmp
NameRank(n) == CHOOSE i \in 1..Len(SortedNames) : SortedNames[i] = n

PluginInfo(key, variant) ==
    [name |-> key, description |-> variant.descriptor.description]

RECURSIVE flat_map(_, _, _)
\* self.plugins.iter().flat_map(..): the buckets in the iteration order of
\* the HashMap, one PluginInfo per variant
flat_map(db, order, i) ==
    IF i > Len(order) THEN << >>
    ELSE [k \in 1..Len(db[order[i]]) |-> PluginInfo(order[i], db[order[i]][k])]
            \o flat_map(db, order, i + 1)

RECURSIVE sort_from(_, _)
\* the entries of v by ascending name from the r-th name on; entries with
\* the same name keep their order (the sort is stable)
sort_from(v, r) ==
    IF r > Len(SortedNames) THEN << >>
    ELSE SelectSeq(v, LAMBDA x : NameRank(x.name) = r) \o sort_from(v, r + 1)

\* plugins.sort_by(|a, b| a.name.cmp(&b.name))
sort_by(v) == sort_from(v, 1)

\* plugins.dedup_by(|a, b| a.name == b.name): of consecutive entries with
\* the same name the first one stays
dedup_by(v) ==
    LET kept == SelectSeq([i \in 1..Len(v) |-> i],
                          LAMBDA i : i = 1 \/ v[i].name # v[i - 1].name)
    IN  [k \in 1..Len(kept) |-> v[kept[k]]]

\* a listing that is sorted but not deduplicated
plugins_without_dedup(db, order) == sort_by(flat_map(db, order, 1))

\* plugins() when the HashMap enumerates its keys in the given order
plugins(db, order) == dedup_by(sort_by(flat_map(db, order, 1)))

\* the names plugins() lists
PluginNames(db) ==
    UNION { {plugins(db, order)[k].name : k \in 1..Len(plugins(db, order))} :
            order \in Orders(DOMAIN db) }

\* Vec::retain
RECURSIVE retain(_, _)
retain(vec, digest) ==
    IF Len(vec) = 0 THEN << >>
    ELSE IF Head(vec).digest # digest
         THEN << Head(vec) >> \o retain(Tail(vec), digest)
         ELSE retain(Tail(vec), digest)

\* a delete that prunes the bucket of one name only
delete_by_digest_one_bucket(db, digest) ==
    [n \in DOMAIN db |-> IF n = "coredump" THEN retain(db[n], digest) ELSE db[n]]

delete_by_digest(db, digest) == [n \in DOMAIN db |-> retain(db[n], digest)]

\* every variant stored in the database
AllVariants(db) == UNION { {db[n][i] : i \in 1..Len(db[n])} : n \in DOMAIN db }

\* the bucket of a name, empty when the name is unknown
Variants(db, name) == IF name \in DOMAIN db THEN db[name] ELSE << >>

find_by_digest(db, digest) == {v \in AllVariants(db) : v.digest = digest}

\* Option<T>: None and Some(x)
None == << >>

Some(x) == << x >>

PluginDatabaseFindParams(version, memflow_plugin_version, file_type, architecture, digest, digest_short, skip, limit) ==
    [version |-> version, memflow_plugin_version |-> memflow_plugin_version,
     file_type |-> file_type, architecture |-> architecture,
     digest |-> digest, digest_short |-> digest_short,
     skip |-> skip, limit |-> limit]

NoParams == PluginDatabaseFindParams(None, None, None, None, None, None, None, None)

unwrap_or(opt, default) == IF opt = None THEN default ELSE opt[1]

Min(a, b) == IF a < b THEN a ELSE b

\* the filter closure of plugin_variants
variant_matches(p, plugin_name, params) ==
    /\ p.descriptor.name = plugin_name
    /\ params.version # None => params.version[1] = p.descriptor.version
    /\ params.memflow_plugin_version # None =>
           params.memflow_plugin_version[1] = p.descriptor.plugin_version
    /\ params.file_type # None => params.file_type[1] = p.descriptor.file_type
    /\ params.architecture # None => params.architecture[1] = p.descriptor.architecture
    /\ params.digest # None => params.digest[1] = p.digest
    /\ params.digest_short # None => params.digest_short[1] = Prefix7(p.digest)

RECURSIVE filter_take(_, _, _, _)
\* Iterator::filter(..).take(n) over the rest of the vector
filter_take(vec, plugin_name, params, n) ==
    IF n = 0 \/ Len(vec) = 0 THEN << >>
    ELSE IF variant_matches(Head(vec), plugin_name, params)
         THEN << Head(vec) >> \o filter_take(Tail(vec), plugin_name, params, n - 1)
         ELSE filter_take(Tail(vec), plugin_name, params, n)

plugin_variants(db, plugin_name, params) ==
    IF plugin_name \notin DOMAIN db THEN << >>
    ELSE LET variants == db[plugin_name]
             skip     == Min(unwrap_or(params.skip, 0), Len(variants))
         IN  filter_take(SubSeq(variants, skip + 1, Len(variants)), plugin_name, params,
                         Min(unwrap_or(params.limit, DEFAULT_PLUGIN_VARIANTS),
                             MAX_PLUGIN_VARIANTS))

(***************************************************************************)
(* plugin_variants of the crate in src/src: the version parameter matches  *)
(* the descriptor's version or a prefix of the digest; the slice           *)
(* p.digest[..version.len()] panics when version is longer than the digest.*)
(* The answers are "true", "false" and "panic".                            *)
(***************************************************************************)
variant_matches_by_version(p, plugin_name, params) ==
    IF p.descriptor.name # plugin_name THEN "false"
    ELSE IF params.version # None
            /\ params.version[1] # p.descriptor.version
            /\ StrLen(params.version[1]) > StrLen(p.digest)
    THEN "panic"
    ELSE IF params.version # None
            /\ params.version[1] # p.descriptor.version
            /\ Chars(params.version[1])
                  # SubSeq(Chars(p.digest), 1, StrLen(params.version[1]))
    THEN "false"
    ELSE IF /\ params.memflow_plugin_version # None =>
                   params.memflow_plugin_version[1] = p.descriptor.plugin_version
            /\ params.file_type # None => params.file_type[1] = p.descriptor.file_type
            /\ params.architecture # None =>
                   params.architecture[1] = p.descriptor.architecture
    THEN "true"
    ELSE "false"

RECURSIVE filter_take_by_version(_, _, _, _, _)
\* filter(..).take(n): the elements are tested one by one until n matched
filter_take_by_version(vec, plugin_name, params, n, acc) ==
    IF n = 0 \/ Len(vec) = 0 THEN [panicked |-> FALSE, val |-> acc]
    ELSE LET m == variant_matches_by_version(Head(vec), plugin_name, params)
         IN  IF m = "panic" THEN [panicked |-> TRUE, val |-> << >>]
             ELSE IF m = "true"
             THEN filter_take_by_version(Tail(vec), plugin_name, params, n - 1,
                                         Append(acc, Head(vec)))
             ELSE filter_take_by_version(Tail(vec), plugin_name, params, n, acc)

plugin_variants_by_version(db, plugin_name, params) ==
    IF plugin_name \notin DOMAIN db THEN [panicked |-> FALSE, val |-> << >>]
    ELSE LET variants == db[plugin_name]
             skip     == Min(unwrap_or(params.skip, 0), Len(variants))
         IN  filter_take_by_version(SubSeq(variants, skip + 1, Len(variants)),
                                    plugin_name, params,
                                    Min(unwrap_or(params.limit, DEFAULT_PLUGIN_VARIANTS),
                                        MAX_PLUGIN_VARIANTS),
                                    << >>)

(***************************************************************************)
(* Storage::new: rebuild the database from every .meta of the root, in the *)
(* order read_dir happens to enumerate them.  A sidecar that does not       *)
(* deserialize, or an insert_all that panics, fails the startup.           *)
(***************************************************************************)
RECURSIVE load_from(_, _, _, _)
load_from(metas, order, i, db) ==
    IF i > Len(order) THEN [db |-> db, ok |-> TRUE]
    ELSE LET parsed == from_str(metas[order[i]])
         IN  IF ~parsed.ok THEN [db |-> db, ok |-> FALSE]
             ELSE LET r == insert_all(db, parsed.val)
                  IN  IF r.panicked THEN [db |-> r.db, ok |-> FALSE]
                      ELSE load_from(metas, order, i + 1, r.db)

Storage_new(metas, order) == load_from(metas, order, 1, EmptyMap)

(***************************************************************************)
(* Initial state: an empty root directory and a freshly started service    *)
(* with MEMFLOW_PUBLIC_KEY_FILE set, so that uploads are verified.         *)
(***************************************************************************)
Init ==
    /\ plugin_files = EmptyMap
    /\ meta_files = EmptyMap
    /\ database = EmptyMap
    /\ signature_verifier = TRUE
    /\ up = TRUE
    /\ tasks = [t \in Tasks |-> IdleTask]
    /\ uploaded = [d \in Digests |-> "no"]
    /\ faulted = FALSE
    /\ response = NoResponse
    /\ bearer_token = None
    /\ overflow_checks = FALSE
    /\ writes = NoWrites

(***************************************************************************)
(* History of a digest (not program state):                                *)
(*   "no"        nothing is known about it                                   *)
(*   "begun"     an upload of it got past the existence check              *)
(*   "added"     an upload of it returned Added and no delete has touched  *)
(*               it since                                                    *)
(*   "deleting"  a delete of an added digest is in progress                *)
(*   "deleted"   that delete returned success and no upload followed       *)
(* faulted records that some request did not run to its response: a        *)
(* handler panicked, or the process was killed with a request in flight.   *)
(***************************************************************************)
\* the upload gets past signature verification and descriptor parsing
Accepted(b, sig) ==
    /\ signature_verifier => is_valid(b, sig).ok
    /\ parse_descriptors(b).ok

Finish(t, r) == [tasks EXCEPT ![t].pc = "done", ![t].res = r]

(***************************************************************************)
(* Storage::upload, one action per step between suspension points          *)
(***************************************************************************)
\* signature check, descriptor parsing (which may panic), digest, existence
\* check
UploadBegin(t, b, sig) ==
    /\ up
    /\ tasks[t].pc = "idle"
    /\ LET call == [IdleTask EXCEPT !.op = "upload", !.bytes = b,
                                    !.signature = sig, !.digest = Digest(b)]
       IN  tasks' =
             IF signature_verifier /\ ~is_valid(b, sig).ok
             THEN [tasks EXCEPT ![t] = [call EXCEPT !.pc = "done", !.res = "ErrSignature"]]
             ELSE IF parse_descriptors(b) = Panicked
             THEN [tasks EXCEPT ![t] = [call EXCEPT !.pc = "done", !.res = "Panic"]]
             ELSE IF ~parse_descriptors(b).ok
             THEN [tasks EXCEPT ![t] = [call EXCEPT !.pc = "done", !.res = "ErrParse"]]
             ELSE IF plugin_exists(Digest(b))
             THEN [tasks EXCEPT ![t] = [call EXCEPT !.pc = "done", !.res = "AlreadyExists"]]
             ELSE [tasks EXCEPT ![t] = [call EXCEPT !.pc = "create_plugin"]]
    /\ uploaded' =
          IF Accepted(b, sig) /\ ~plugin_exists(Digest(b))
             /\ uploaded[Digest(b)] \in {"no", "deleted"}
          THEN [uploaded EXCEPT ![Digest(b)] = "begun"]
          ELSE uploaded
    /\ faulted' = (faulted \/ ((signature_verifier => is_valid(b, sig).ok)
                                  /\ parse_descriptors(b) = Panicked))
    /\ UNCHANGED << plugin_files, meta_files, database, signature_verifier, up,
                    response, bearer_token, overflow_checks, writes >>

\* File::create(&file_name).await: the file exists and is empty (an
\* existing file is truncated)
UploadCreatePlugin(t) ==
    /\ up
    /\ tasks[t].pc = "create_plugin"
    /\ plugin_files' = Put(plugin_files, tasks[t].digest, EmptyFile)
    /\ tasks' = [tasks EXCEPT ![t].pc = "write_plugin"]
    /\ UNCHANGED << meta_files, database, signature_verifier, up, uploaded, faulted,
                    response, bearer_token, overflow_checks, writes >>

\* plugin_file.write_all(bytes).await on a tokio File: the bytes are copied
\* into the file's buffer and the write is handed to the blocking pool;
\* write_all returns without waiting for it (there is no flush), so the
\* bytes reach the file at some later point.  Of a file above the buffer
\* size all chunks but the last have reached the file at the return: a
\* proper prefix, as in the states BlockingWritePartial leads to.  The
\* handle of a file that was unlinked after File::create writes to the
\* unlinked inode, whatever the path names by then.
UploadWritePlugin(t) ==
    /\ up
    /\ tasks[t].pc = "write_plugin"
    /\ writes' = IF tasks[t].unlinked THEN writes
                 ELSE [writes EXCEPT !.plugin = @ \cup
                          {[file |-> "plugin", digest |-> tasks[t].digest,
                            content |-> << tasks[t].bytes >>]}]
    /\ tasks' = [tasks EXCEPT ![t].pc = "create_meta"]
    /\ UNCHANGED << plugin_files, meta_files, database, signature_verifier, up, uploaded,
                    faulted, response, bearer_token, overflow_checks >>

TaskMetadata(t, now) ==
    PluginMetadata(tasks[t].digest, tasks[t].signature, now,
                   parse_descriptors(tasks[t].bytes).val)

\* metadata built with created_at = Utc::now(); File::create on {digest}.meta
UploadCreateMeta(t) ==
    /\ up
    /\ tasks[t].pc = "create_meta"
    /\ \E now \in Times :
          tasks' = [tasks EXCEPT ![t].pc = "write_meta", ![t].created_at = now]
    /\ meta_files' = Put(meta_files, tasks[t].digest, EmptyFile)
    /\ UNCHANGED << plugin_files, database, signature_verifier, up, uploaded, faulted,
                    response, bearer_token, overflow_checks, writes >>

\* metadata_file.write_all(serde_json::to_string(&metadata)).await: the
\* JSON is handed to the blocking pool in the same way
UploadWriteMeta(t) ==
    /\ up
    /\ tasks[t].pc = "write_meta"
    /\ tasks' = [tasks EXCEPT ![t].pc = "insert"]
    /\ writes' = [writes EXCEPT !.meta = @ \cup
                      {[file |-> "meta", digest |-> tasks[t].digest,
                        content |-> to_string(TaskMetadata(t, tasks[t].created_at))]}]
    /\ UNCHANGED << plugin_files, meta_files, database, signature_verifier, up, uploaded,
                    faulted, response, bearer_token, overflow_checks >>

\* database.write(); insert_all(&metadata); Ok(()).  A panic in insert_all
\* unwinds the handler (the lock is released, nothing is rolled back).
UploadInsert(t) ==
    /\ up
    /\ tasks[t].pc = "insert"
    /\ LET r == insert_all(database, TaskMetadata(t, tasks[t].created_at))
       IN  /\ database' = r.db
           /\ tasks' = Finish(t, IF r.panicked THEN "Panic" ELSE "Added")
           /\ uploaded' = IF r.panicked THEN uploaded
                          ELSE [uploaded EXCEPT ![tasks[t].digest] = "added"]
           /\ faulted' = (faulted \/ r.panicked)
    /\ UNCHANGED << plugin_files, meta_files, signature_verifier, up,
                    response, bearer_token, overflow_checks, writes >>

(***************************************************************************)
(* The writes of tokio::fs::File on the blocking pool                      *)
(***************************************************************************)
\* the write of a plugin file has begun and a proper prefix of the bytes is
\* in the file (a sidecar is a few hundred bytes, written by one call)
BlockingWritePartial(w) ==
    /\ up
    /\ w \in writes.plugin
    /\ w.digest \in DOMAIN plugin_files
    /\ plugin_files[w.digest] = EmptyFile
    /\ plugin_files' = Put(plugin_files, w.digest, PartialFile(w.content))
    /\ UNCHANGED << meta_files, database, signature_verifier, up, tasks, uploaded,
                    faulted, response, bearer_token, overflow_checks, writes >>

\* a write has run to its end: the plugin file holds the bytes (every write
\* to it carries the same bytes); the sidecar holds the JSON from offset 0
\* on, followed by whatever a longer JSON written before has left.  The
\* write of a handle whose file has been unlinked in the meantime completes
\* as well and leaves no trace under the path.
BlockingWriteDone(w) ==
    /\ up
    /\ w \in writes[w.file]
    /\ plugin_files' =
          IF w.file = "plugin" /\ w.digest \in DOMAIN plugin_files
          THEN Put(plugin_files, w.digest, w.content)
          ELSE plugin_files
    /\ meta_files' =
          IF w.file = "meta" /\ w.digest \in DOMAIN meta_files
          THEN Put(meta_files, w.digest,
                   write_at_start(meta_files[w.digest], w.content))
          ELSE meta_files
    /\ writes' = [writes EXCEPT ![w.file] = @ \ {w}]
    /\ UNCHANGED << database, signature_verifier, up, tasks, uploaded, faulted,
                    response, bearer_token, overflow_checks >>

(***************************************************************************)
(* Storage::delete                                                          *)
(***************************************************************************)
\* file_name = root.join(digest) with the extension set to "plugin";
\* existence check on it.  The history of the file's digest goes on to
\* "deleting" for a delete of that digest, and is forgotten for a delete
\* under another argument that names the same file.
DeleteBegin(t, d) ==
    /\ up
    /\ tasks[t].pc = "idle"
    /\ LET call == [IdleTask EXCEPT !.op = "delete", !.digest = d]
       IN  tasks' =
             IF ~plugin_exists(set_extension(d))
             THEN [tasks EXCEPT ![t] = [call EXCEPT !.pc = "done", !.res = "NotFound"]]
             ELSE [tasks EXCEPT ![t] = [call EXCEPT !.pc = "delete_db"]]
    /\ uploaded' =
          IF ~plugin_exists(set_extension(d)) THEN uploaded
          ELSE [uploaded EXCEPT ![set_extension(d)] =
                    IF @ = "added" /\ set_extension(d) = d THEN "deleting" ELSE "no"]
    /\ UNCHANGED << plugin_files, meta_files, database, signature_verifier, up, faulted,
                    response, bearer_token, overflow_checks, writes >>

\* database.write(); delete_by_digest(digest), with the argument as it
\* came in (no variant has a digest with an extension)
DeleteDb(t) ==
    /\ up
    /\ tasks[t].pc = "delete_db"
    /\ database' = delete_by_digest(database, tasks[t].digest)
    /\ tasks' = [tasks EXCEPT ![t].pc = "remove_file"]
    /\ uploaded' = [uploaded EXCEPT ![set_extension(tasks[t].digest)] =
                        IF @ = "deleting" /\ set_extension(tasks[t].digest) = tasks[t].digest
                        THEN "deleting" ELSE "no"]
    /\ UNCHANGED << plugin_files, meta_files, signature_verifier, up, faulted,
                    response, bearer_token, overflow_checks, writes >>

\* the tasks after task t has unlinked the plugin file of digest d: an
\* upload that has created the file and not yet written to it holds a
\* handle of the unlinked inode
Unlink(t, d, r) ==
    [u \in Tasks |->
        IF u = t THEN [tasks[t] EXCEPT !.pc = "done", !.res = r]
        ELSE IF tasks[u].op = "upload" /\ tasks[u].pc = "write_plugin"
                /\ tasks[u].digest = d
        THEN [tasks[u] EXCEPT !.unlinked = TRUE]
        ELSE tasks[u]]

\* tokio::fs::remove_file(file_name) with file_name = {stem}.plugin;
\* the sidecar is not touched.  Writes still on their way to the file
\* land on the unlinked inode.
DeleteRemoveFile(t) ==
    /\ up
    /\ tasks[t].pc = "remove_file"
    /\ LET d == set_extension(tasks[t].digest)
       IN  /\ IF plugin_exists(d)
              THEN /\ plugin_files' = Remove(plugin_files, d)
                   /\ tasks' = Unlink(t, d, "Deleted")
                   /\ uploaded' = [uploaded EXCEPT ![d] =
                                       IF @ = "deleting" /\ d = tasks[t].digest
                                       THEN "deleted" ELSE "no"]
              ELSE /\ plugin_files' = plugin_files
                   /\ tasks' = Finish(t, "ErrIO")
                   /\ uploaded' = [uploaded EXCEPT ![d] = "no"]
           /\ writes' = [writes EXCEPT !.plugin = {w \in @ : w.digest # d}]
    /\ UNCHANGED << meta_files, database, signature_verifier, up, faulted,
                    response, bearer_token, overflow_checks >>

(***************************************************************************)
(* Storage::download: File::open on {digest}.plugin; the content read from *)
(* the opened file is what the file holds at that moment.                  *)
(***************************************************************************)
download(digest) ==
    IF plugin_exists(set_extension(digest))
    THEN Ok(plugin_files[set_extension(digest)])
    ELSE Err("IO")

\* the status the handlers upload_file and delete_file_by_digest answer a
\* finished call of the storage with: every error of Storage::upload becomes
\* BAD_REQUEST, every error of Storage::delete INTERNAL_SERVER_ERROR; a
\* handler that panicked sends no status (0)
status_code(op, res) ==
    CASE res = "Panic" -> 0
      [] op = "upload" /\ res = "Added" -> 200
      [] op = "upload" -> 400
      [] op = "delete" /\ res = "Deleted" -> 200
      [] op = "delete" -> 500
      [] OTHER -> 200

\* the handler's response has been sent; the task slot is free again
Respond(t) ==
    /\ tasks[t].pc = "done"
    /\ tasks' = [tasks EXCEPT ![t] = IdleTask]
    /\ UNCHANGED << plugin_files, meta_files, database, signature_verifier, up, uploaded,
                    faulted,
                    response, bearer_token, overflow_checks, writes >>

(***************************************************************************)
(* Restart of the service (main: Storage::new on the same root).  A        *)
(* graceful shutdown drains the requests in flight first; a crash does not.*)
(***************************************************************************)
Startup ==
    \E order \in Orders(DOMAIN meta_files) :
        LET r == Storage_new(meta_files, order)
        IN  /\ up' = r.ok
            /\ database' = IF r.ok THEN r.db ELSE EmptyMap
            /\ tasks' = [t \in Tasks |-> IdleTask]
            /\ writes' = NoWrites
            /\ UNCHANGED << plugin_files, meta_files, signature_verifier, uploaded,
                    response, bearer_token, overflow_checks >>

Restart ==
    /\ \A t \in Tasks : tasks[t].pc \in {"idle", "done"}
    /\ writes = NoWrites
    /\ Startup
    /\ faulted' = faulted

Crash ==
    /\ \/ \E t \in Tasks : tasks[t].pc \notin {"idle", "done"}
       \/ writes # NoWrites
    /\ Startup
    /\ faulted' = TRUE

\* requests served one at a time (handler 1), regularly built binaries; a
\* request may come in while writes of the requests before it are still on
\* the blocking pool
Next ==
    \/ \E b \in RegularBinaries, sig \in Signatures : UploadBegin(1, b, sig)
    \/ UploadCreatePlugin(1)
    \/ UploadWritePlugin(1)
    \/ UploadCreateMeta(1)
    \/ UploadWriteMeta(1)
    \/ UploadInsert(1)
    \/ \E b \in RegularBinaries : DeleteBegin(1, Digest(b))
    \/ DeleteDb(1)
    \/ DeleteRemoveFile(1)
    \/ Respond(1)
    \/ \E w \in writes.plugin : BlockingWritePartial(w)
    \/ \E file \in DOMAIN writes : \E w \in writes[file] : BlockingWriteDone(w)
    \/ Restart
    \/ Crash

Spec == Init /\ [][Next]_vars

\* concurrent handlers working on the same binary, next to a binary that
\* was uploaded before
ConcBinaries == {2}

StoredBinaries == {1}

\* the metadata of the upload of b that returned at the clock reading `now`
StoredMetadata(b, now) ==
    PluginMetadata(Digest(b), "sig_ok", now, parse_descriptors(b).val)

\* the clock reading of those uploads
StoredAt == CHOOSE now \in Times : \A t \in Times : now >= t

\* the registry after the upload of binary 1 has returned and its writes
\* have reached the files
InitConc ==
    /\ plugin_files = [d \in {Digest(b) : b \in StoredBinaries} |-> << BytesOf(d) >>]
    /\ meta_files = [d \in {Digest(b) : b \in StoredBinaries} |->
                        to_string(StoredMetadata(BytesOf(d), StoredAt))]
    /\ database = insert_all(EmptyMap, StoredMetadata(1, StoredAt)).db
    /\ signature_verifier = TRUE
    /\ up = TRUE
    /\ tasks = [t \in Tasks |-> IdleTask]
    /\ uploaded = [d \in Digests |->
                      IF d \in {Digest(b) : b \in StoredBinaries} THEN "added" ELSE "no"]
    /\ faulted = FALSE
    /\ response = NoResponse
    /\ bearer_token = None
    /\ overflow_checks = FALSE
    /\ writes = NoWrites

NextConc ==
    \/ \E t \in Tasks, b \in ConcBinaries : UploadBegin(t, b, "sig_ok")
    \/ \E t \in Tasks : UploadCreatePlugin(t)
    \/ \E t \in Tasks : UploadWritePlugin(t)
    \/ \E t \in Tasks : UploadCreateMeta(t)
    \/ \E t \in Tasks : UploadWriteMeta(t)
    \/ \E t \in Tasks : UploadInsert(t)
    \/ \E t \in Tasks, b \in ConcBinaries \cup StoredBinaries :
           DeleteBegin(t, Digest(b))
    \/ \E t \in Tasks : DeleteDb(t)
    \/ \E t \in Tasks : DeleteRemoveFile(t)
    \/ \E t \in Tasks : Respond(t)
    \/ \E w \in writes.plugin : BlockingWritePartial(w)
    \/ \E file \in DOMAIN writes : \E w \in writes[file] : BlockingWriteDone(w)
    \/ Restart
    \/ Crash

SpecConc == InitConc /\ [][NextConc]_vars

\* requests served one at a time: crafted binaries, a library that is no
\* plugin and a file that is no binary are uploaded, to a build with or
\* without overflow checks
CraftedBinaries == {4, 5, 6, 8, 9}

InitCrafted ==
    /\ plugin_files = EmptyMap
    /\ meta_files = EmptyMap
    /\ database = EmptyMap
    /\ signature_verifier = TRUE
    /\ up = TRUE
    /\ tasks = [t \in Tasks |-> IdleTask]
    /\ uploaded = [d \in Digests |-> "no"]
    /\ faulted = FALSE
    /\ response = NoResponse
    /\ bearer_token = None
    /\ overflow_checks \in BOOLEAN
    /\ writes = NoWrites

NextCrafted ==
    \/ \E b \in CraftedBinaries, sig \in Signatures : UploadBegin(1, b, sig)
    \/ UploadCreatePlugin(1)
    \/ UploadWritePlugin(1)
    \/ UploadCreateMeta(1)
    \/ UploadWriteMeta(1)
    \/ UploadInsert(1)
    \/ \E b \in CraftedBinaries : DeleteBegin(1, Digest(b))
    \/ DeleteDb(1)
    \/ DeleteRemoveFile(1)
    \/ Respond(1)
    \/ \E w \in writes.plugin : BlockingWritePartial(w)
    \/ \E file \in DOMAIN writes : \E w \in writes[file] : BlockingWriteDone(w)
    \/ Restart
    \/ Crash

SpecCrafted == InitCrafted /\ [][NextCrafted]_vars

\* requests served one at a time: fat Mach-O binaries, one with two good
\* slices and one holding a slice that cannot be parsed
FatBinaries == {3, 7}

NextFat ==
    \/ \E b \in FatBinaries, sig \in Signatures : UploadBegin(1, b, sig)
    \/ UploadCreatePlugin(1)
    \/ UploadWritePlugin(1)
    \/ UploadCreateMeta(1)
    \/ UploadWriteMeta(1)
    \/ UploadInsert(1)
    \/ \E b \in FatBinaries : DeleteBegin(1, Digest(b))
    \/ DeleteDb(1)
    \/ DeleteRemoveFile(1)
    \/ Respond(1)
    \/ \E w \in writes.plugin : BlockingWritePartial(w)
    \/ \E file \in DOMAIN writes : \E w \in writes[file] : BlockingWriteDone(w)
    \/ Restart
    \/ Crash

SpecFat == Init /\ [][NextFat]_vars

(***************************************************************************)
(* The PluginDatabase on its own: a catalog built by insert_all from a     *)
(* number of files, then queried and pruned through its public methods.    *)
(* Every call leaves its arguments and its result in `response`.           *)
(***************************************************************************)
\* the i-th file of a bulk catalog, stored at time i: every third one is
\* binary 1, the others binary 2
BulkMetadata(i) ==
    LET b == IF i % 3 = 0 THEN 1 ELSE 2
    IN  PluginMetadata(Digest(b), "sig_ok", i, parse_descriptors(b).val)

\* the plugin_versions of the bulk files, highest first
BulkPluginVersions == << 2, 1 >>

\* the bucket of a name after insert_all of files 1..n: the variants of
\* the files that export the name, ordered as insert_all keeps a bucket,
\* by the plugin_version of the file's first descriptor, highest first,
\* and under one plugin_version newest first
BulkBucket(name, n) ==
    LET newest_first == [k \in 1..n |-> BulkMetadata(n + 1 - k)]
        Exports(m)   == \E i \in 1..Len(m.descriptors) : m.descriptors[i].name = name
        Named(m)     == m.descriptors[CHOOSE i \in 1..Len(m.descriptors) :
                                          m.descriptors[i].name = name]
        exporting    == SelectSeq(newest_first, Exports)
        OfVersion(k) == SelectSeq(exporting, LAMBDA m :
                            m.descriptors[1].plugin_version = BulkPluginVersions[k])
        ordered      == OfVersion(1) \o OfVersion(2)
    IN  [k \in 1..Len(ordered) |-> PluginVariant(ordered[k], Named(ordered[k]))]

BulkDatabase(n) ==
    [name \in {x \in Names : Len(BulkBucket(x, n)) > 0} |-> BulkBucket(name, n)]

BulkSizes == {0, 3, 6, MaxVariants}

InitQuery ==
    /\ plugin_files = EmptyMap
    /\ meta_files = EmptyMap
    /\ database \in {BulkDatabase(n) : n \in BulkSizes}
    /\ signature_verifier = TRUE
    /\ up = TRUE
    /\ tasks = [t \in Tasks |-> IdleTask]
    /\ uploaded = [d \in Digests |-> "no"]
    /\ faulted = FALSE
    /\ response = NoResponse
    /\ bearer_token = None
    /\ overflow_checks = FALSE
    /\ writes = NoWrites

QueryNames == Names \cup {"unknown"}

QuerySkips == {None, Some(1), Some(MaxVariants + 1)}

QueryLimits == {None, Some(0), Some(MAX_PLUGIN_VARIANTS + 1)}

QueryFilters ==
    { NoParams,
      [NoParams EXCEPT !.version = Some("0.2.1")],
      [NoParams EXCEPT !.memflow_plugin_version = Some(1)],
      [NoParams EXCEPT !.memflow_plugin_version = Some(2)],
      [NoParams EXCEPT !.file_type = Some("pe")],
      [NoParams EXCEPT !.architecture = Some("arm64")],
      [NoParams EXCEPT !.digest = Some(Digest(2))],
      [NoParams EXCEPT !.digest_short = Some(Prefix7(Digest(1)))],
      [NoParams EXCEPT !.version = Some("0.2.1"), !.file_type = Some("elf")] }

QueryParams ==
    { [f EXCEPT !.skip = sk, !.limit = lm] :
          f \in QueryFilters, sk \in QuerySkips, lm \in QueryLimits }

\* version strings sent to the crate in src/src: versions, digests, a
\* digest prefix, a string longer than a digest and one that matches nothing
QueryVersions == {"0.2.0", "0.2.1", "d2bb", "d2bb0002", "d1aa0001", "d2bb00020", "zz"}

QueryParamsByVersion ==
    { [NoParams EXCEPT !.version = v, !.skip = sk, !.limit = lm] :
          v \in {None} \cup {Some(x) : x \in QueryVersions},
          sk \in {None, Some(1)},
          lm \in {None, Some(0), Some(MAX_PLUGIN_VARIANTS + 1)} }

\* PluginDatabase::plugin_variants
CallPluginVariants(name, params) ==
    /\ response' = [op |-> "plugin_variants", name |-> name, params |-> params,
                    val |-> plugin_variants(database, name, params)]
    /\ UNCHANGED << plugin_files, meta_files, database, signature_verifier, up,
                    tasks, uploaded, faulted, bearer_token, overflow_checks, writes >>

\* PluginDatabase::plugin_variants of the crate in src/src
CallPluginVariantsByVersion(name, params) ==
    LET r == plugin_variants_by_version(database, name, params)
    IN  /\ response' = [op |-> "plugin_variants_by_version", name |-> name,
                        params |-> params, panicked |-> r.panicked, val |-> r.val]
        /\ UNCHANGED << plugin_files, meta_files, database, signature_verifier, up,
                        tasks, uploaded, faulted, bearer_token, overflow_checks, writes >>

\* PluginDatabase::plugins, for some iteration order of the HashMap
CallPlugins ==
    \E order \in Orders(DOMAIN database) :
        /\ response' = [op |-> "plugins", val |-> plugins(database, order)]
        /\ UNCHANGED << plugin_files, meta_files, database, signature_verifier, up,
                        tasks, uploaded, faulted, bearer_token, overflow_checks, writes >>

\* PluginDatabase::delete_by_digest
CallDeleteByDigest(digest) ==
    /\ database' = delete_by_digest(database, digest)
    /\ response' = [op |-> "delete_by_digest", digest |-> digest, before |-> database]
    /\ UNCHANGED << plugin_files, meta_files, signature_verifier, up,
                    tasks, uploaded, faulted, bearer_token, overflow_checks, writes >>

NextQuery ==
    \/ \E name \in QueryNames, params \in QueryParams : CallPluginVariants(name, params)
    \/ \E name \in QueryNames, params \in QueryParamsByVersion :
           CallPluginVariantsByVersion(name, params)
    \/ CallPlugins
    \/ \E digest \in Digests : CallDeleteByDigest(digest)

SpecQuery == InitQuery /\ [][NextQuery]_vars

(***************************************************************************)
(* The PluginDatabase on its own: insert_all and delete_by_digest called   *)
(* in any order on a catalog that starts empty, with the metadata of       *)
(* binaries whose descriptors share one plugin_version.  Binaries 1 and 2  *)
(* meet under "coredump" with plugin_versions 1 and 2, binaries 2 and 3    *)
(* under "native" with plugin_version 2.                                   *)
(***************************************************************************)
CatalogBinaries == {1, 2, 3}

\* PluginDatabase::insert_all with the metadata an upload of b at the clock
\* reading `now` builds
CallInsertAll(b, now) ==
    /\ LET metadata == PluginMetadata(Digest(b), "sig_ok", now, parse_descriptors(b).val)
           r == insert_all(database, metadata)
       IN  /\ database' = r.db
           /\ response' = [op |-> "insert_all", digest |-> metadata.digest,
                           created_at |-> now, panicked |-> r.panicked]
    /\ UNCHANGED << plugin_files, meta_files, signature_verifier, up,
                    tasks, uploaded, faulted, bearer_token, overflow_checks, writes >>

\* PluginDatabase::delete_by_digest on the catalog built so far
CallDelete(digest) ==
    /\ database' = delete_by_digest(database, digest)
    /\ response' = [op |-> "delete_by_digest", digest |-> digest]
    /\ UNCHANGED << plugin_files, meta_files, signature_verifier, up,
                    tasks, uploaded, faulted, bearer_token, overflow_checks, writes >>

NextCatalog ==
    \/ \E b \in CatalogBinaries, now \in Times : CallInsertAll(b, now)
    \/ \E b \in CatalogBinaries : CallDelete(Digest(b))

SpecCatalog == Init /\ [][NextCatalog]_vars

(***************************************************************************)
(* The magic numbers plugin_analyzer::is_binary and goblin's Object::parse *)
(* tell the kinds of files by                                              *)
(***************************************************************************)
DOS_MAGIC == << 77, 90 >>                       \* 0x5A4D, "MZ"
ELFMAG == << 127, 69, 76, 70 >>                 \* b"\x7FELF"
MH_MAGIC == << 206, 250, 237, 254 >>            \* 0xfeedface
MH_CIGAM == << 254, 237, 250, 206 >>            \* 0xcefaedfe
MH_MAGIC_64 == << 207, 250, 237, 254 >>         \* 0xfeedfacf
MH_CIGAM_64 == << 254, 237, 250, 207 >>         \* 0xcffaedfe
FAT_MAGIC == << 190, 186, 254, 202 >>           \* 0xcafebabe

\* the bytes of a u32 in the opposite byte order (pread_with(0, BE))
swap_bytes(w) == << w[4], w[3], w[2], w[1] >>

\* plugin_analyzer::is_binary
is_binary(bytes) ==
    LET tag == SubSeq(bytes, 1, 4)
    IN  IF SubSeq(tag, 1, 2) = DOS_MAGIC THEN Ok("unit")
        ELSE IF tag \in {MH_MAGIC, MH_CIGAM, MH_MAGIC_64, MH_CIGAM_64} THEN Ok("unit")
        ELSE IF tag = ELFMAG THEN Ok("unit")
        ELSE Err("Parse")

\* the kind of object goblin's Object::parse takes a file for, which needs
\* 16 bytes to look at ("Object is too small" otherwise): ELF by its
\* first four bytes, PE by the u16 at offset 0, Mach-O and fat Mach-O by the
\* u32 at offset 0 read big-endian
Object_parse(bytes) ==
    LET magic == swap_bytes(SubSeq(bytes, 1, 4))
    IN  IF Len(bytes) < 16 THEN "TooSmall"
        ELSE IF SubSeq(bytes, 1, 4) = ELFMAG THEN "ELF"
        ELSE IF SubSeq(bytes, 1, 2) = DOS_MAGIC THEN "PE"
        ELSE IF magic = FAT_MAGIC THEN "Fat"
        ELSE IF magic \in {MH_MAGIC, MH_CIGAM, MH_MAGIC_64, MH_CIGAM_64} THEN "Mach"
        ELSE "Unknown"

\* the first four bytes of files as the build tools write them
FileMagics ==
    { << 77, 90, 144, 0 >>,            \* PE: "MZ" and the DOS header
      ELFMAG,                          \* ELF
      MH_MAGIC_64,                     \* Mach-O, 64 bit, little-endian
      MH_MAGIC,                        \* Mach-O, 32 bit, little-endian
      MH_CIGAM_64,                     \* Mach-O, 64 bit, big-endian
      swap_bytes(FAT_MAGIC),           \* fat Mach-O: CA FE BA BE on disk
      << 116, 101, 120, 116 >> }       \* "text"

\* the first four bytes of a binary of the model
Magic(b) ==
    CASE Bin(b).kind = "PE" -> << 77, 90, 144, 0 >>
      [] Bin(b).kind = "ELF" -> ELFMAG
      [] Bin(b).kind = "Mach" -> MH_MAGIC_64
      [] Bin(b).kind = "Fat" -> swap_bytes(FAT_MAGIC)
      [] OTHER -> << 116, 101, 120, 116 >>

(***************************************************************************)
(* The authenticated routes: POST /files and DELETE /files/:digest pass    *)
(* through check_token before their handler runs; the GET routes do not.   *)
(* `response` holds the request the gateway has received (its route and    *)
(* its Authorization header, None when the header is missing) and then the *)
(* middleware's rejection, if any.                                         *)
(***************************************************************************)
\* values of MEMFLOW_BEARER_TOKEN: unset, set to the empty string, set
BearerTokens == {None, Some(""), Some("secret")}

\* Authorization headers of a request: none, the configured token, another
Authorizations == {None, Some("secret"), Some("wrong")}

AuthedRoutes == {"upload_file", "delete_file_by_digest"}

\* a plugin, a fat Mach-O and a file that is no binary
AuthBinaries == {1, 3, 4}

\* the multipart forms sent to POST /files: with or without the parts
\* "file" and "signature", with or without a part of another name
Forms ==
    [file : {None} \cup {Some(b) : b \in AuthBinaries},
     signature : {None} \cup {Some(sig) : sig \in Signatures},
     other : BOOLEAN]

\* the middleware: the TypedHeader extractor rejects a request without a
\* bearer Authorization header (400); a configured token that differs from
\* the request's is answered with UNAUTHORIZED; otherwise next.run(request)
check_token(auth_token, authorization) ==
    IF authorization = None THEN Err(400)
    ELSE IF auth_token # None /\ authorization[1] # auth_token[1] THEN Err(401)
    ELSE Ok("next")

InitAuth ==
    /\ plugin_files = EmptyMap
    /\ meta_files = EmptyMap
    /\ database = EmptyMap
    /\ signature_verifier = TRUE
    /\ up = TRUE
    /\ tasks = [t \in Tasks |-> IdleTask]
    /\ uploaded = [d \in Digests |-> "no"]
    /\ faulted = FALSE
    /\ response = NoResponse
    /\ bearer_token \in BearerTokens
    /\ overflow_checks = FALSE
    /\ writes = NoWrites

\* a request for an authenticated route arrives
ReceiveAuthed(route, authorization) ==
    /\ up
    /\ tasks[1].pc = "idle"
    /\ response' = [op |-> "request", route |-> route, authorization |-> authorization]
    /\ UNCHANGED << plugin_files, meta_files, database, signature_verifier, up,
                    tasks, uploaded, faulted, bearer_token, overflow_checks, writes >>

\* check_token answers the request itself
CheckTokenReject ==
    /\ up
    /\ response.op = "request"
    /\ ~check_token(bearer_token, response.authorization).ok
    /\ response' = [op |-> "rejected", route |-> response.route,
                    authorization |-> response.authorization,
                    status |-> check_token(bearer_token, response.authorization).err]
    /\ UNCHANGED << plugin_files, meta_files, database, signature_verifier, up,
                    tasks, uploaded, faulted, bearer_token, overflow_checks, writes >>

\* check_token passes the request on to upload_file, which reads the parts
\* of the form: a part of another name, a file of more than 4 bytes that
\* is_binary does not accept (every binary of the model is longer), a
\* missing file and a missing signature are answered with BAD_REQUEST
ReadMultipart(form) ==
    /\ up
    /\ response.op = "request"
    /\ response.route = "upload_file"
    /\ check_token(bearer_token, response.authorization).ok
    /\ response' =
          IF \/ form.other
             \/ form.file = None
             \/ form.signature = None
             \/ ~is_binary(Magic(form.file[1]) \o << 0 >>).ok
          THEN [op |-> "bad_request", route |-> response.route,
                authorization |-> response.authorization, status |-> 400]
          ELSE [op |-> "form", route |-> response.route,
                authorization |-> response.authorization,
                file |-> form.file[1], signature |-> form.signature[1]]
    /\ UNCHANGED << plugin_files, meta_files, database, signature_verifier, up,
                    tasks, uploaded, faulted, bearer_token, overflow_checks, writes >>

\* upload_file calls storage.upload(&data[..], &signature)
AuthedUpload ==
    /\ response.op = "form"
    /\ UploadBegin(1, response.file, response.signature)

\* check_token passes the request on to delete_file_by_digest
AuthedDelete(digest) ==
    /\ response.op = "request"
    /\ response.route = "delete_file_by_digest"
    /\ check_token(bearer_token, response.authorization).ok
    /\ DeleteBegin(1, digest)

\* GET /files/:digest, a public route: find_file_by_digest
FindFileByDigest(digest) ==
    /\ up
    /\ response' = [op |-> "find_file_by_digest", digest |-> digest,
                    status |-> IF download(digest).ok THEN 200 ELSE 404]
    /\ UNCHANGED << plugin_files, meta_files, database, signature_verifier, up,
                    tasks, uploaded, faulted, bearer_token, overflow_checks, writes >>

NextAuth ==
    \/ \E route \in AuthedRoutes, authorization \in Authorizations :
           ReceiveAuthed(route, authorization)
    \/ CheckTokenReject
    \/ \E form \in Forms : ReadMultipart(form)
    \/ AuthedUpload
    \/ UploadCreatePlugin(1)
    \/ UploadWritePlugin(1)
    \/ UploadCreateMeta(1)
    \/ UploadWriteMeta(1)
    \/ UploadInsert(1)
    \/ \E d \in DigestArgs(AuthBinaries) : AuthedDelete(d)
    \/ DeleteDb(1)
    \/ DeleteRemoveFile(1)
    \/ Respond(1)
    \/ \E d \in DigestArgs(AuthBinaries) : FindFileByDigest(d)
    \/ \E w \in writes.plugin : BlockingWritePartial(w)
    \/ \E file \in DOMAIN writes : \E w \in writes[file] : BlockingWriteDone(w)

SpecAuth == InitAuth /\ [][NextAuth]_vars

(***************************************************************************)
(* The catalog lock (parking_lot::RwLock around the PluginDatabase).  The  *)
(* field `lock` of a task says which guard the task holds.  A guard is     *)
(* taken right before the catalog is touched and dropped at the end of the *)
(* block, statement or function that created it, in the step that runs the *)
(* last statement of that scope.  Handlers run on several worker threads,  *)
(* so other tasks take steps while a guard is held.                         *)
(***************************************************************************)
\* uploads, deletes, listings and downloads come in on every handler
LockBinaries == {1}

\* the two storages: the one of the workspace crate (upload, download by
\* path, delete) and the one in src/src (upload, download by catalog entry)
Crates == {"memflow-registry", "src"}

\* the catalog of the storage in src/src is one Vec of entries, one per
\* descriptor of every file
PluginEntry(metadata, descriptor) ==
    [digest |-> metadata.digest, signature |-> metadata.signature,
     created_at |-> metadata.created_at, descriptor |-> descriptor]

\* PluginDatabase::new of either storage
PluginDatabase_new(crate) == IF crate = "src" THEN << >> ELSE EmptyMap

RECURSIVE sort_by_created_at(_)
\* slice::sort_by(|a, b| b.created_at.partial_cmp(&a.created_at)): newest
\* first, entries of one created_at in the order they had (the sort is stable)
sort_by_created_at(vec) ==
    IF Len(vec) <= 1 THEN vec
    ELSE LET sorted == sort_by_created_at(SubSeq(vec, 1, Len(vec) - 1))
             last   == vec[Len(vec)]
         IN  SelectSeq(sorted, LAMBDA e : e.created_at >= last.created_at)
                 \o << last >>
                 \o SelectSeq(sorted, LAMBDA e : e.created_at < last.created_at)

\* insert_all of the storage in src/src: an entry per descriptor is pushed,
\* the Vec is sorted, and the call returns Ok(()); no entry is refused
insert_all_entries(vec, metadata) ==
    sort_by_created_at(vec \o [i \in 1..Len(metadata.descriptors) |->
                                       PluginEntry(metadata, metadata.descriptors[i])])

\* PluginDatabaseFindParams of the storage in src/src with every field None
NoFindParams == [name |-> None] @@ NoParams

\* the filter closure of find
entry_matches(p, params) ==
    /\ params.name # None => params.name[1] = p.descriptor.name
    /\ params.version # None => params.version[1] = p.descriptor.version
    /\ params.memflow_plugin_version # None =>
           params.memflow_plugin_version[1] = p.descriptor.plugin_version
    /\ params.file_type # None => params.file_type[1] = p.descriptor.file_type
    /\ params.architecture # None => params.architecture[1] = p.descriptor.architecture
    /\ params.digest # None => params.digest[1] = p.digest
    /\ params.digest_short # None => params.digest_short[1] = Prefix7(p.digest)

\* find of the storage in src/src: skip, filter, take(limit.unwrap_or(50).min(50))
find(vec, params) ==
    LET skip == Min(unwrap_or(params.skip, 0), Len(vec))
        rest == SelectSeq(SubSeq(vec, skip + 1, Len(vec)),
                          LAMBDA p : entry_matches(p, params))
    IN  SubSeq(rest, 1, Min(Len(rest), Min(unwrap_or(params.limit, 50), 50)))

InitLock ==
    /\ plugin_files = EmptyMap
    /\ meta_files = EmptyMap
    /\ \E c \in Crates : /\ database = PluginDatabase_new(c)
                         /\ response = [op |-> "storage", crate |-> c]
    /\ signature_verifier = TRUE
    /\ up = TRUE
    /\ tasks = [t \in Tasks |-> IdleTask]
    /\ uploaded = [d \in Digests |-> "no"]
    /\ faulted = FALSE
    /\ bearer_token = None
    /\ overflow_checks = FALSE
    /\ writes = NoWrites

\* the guard of task t has gone out of scope
DropGuard(ts, t) == [ts EXCEPT ![t].lock = "none"]

\* self.database.write(): no other guard exists
AcquireWrite(t) ==
    /\ up
    /\ tasks[t].pc \in {"insert", "delete_db"}
    /\ \A u \in Tasks : tasks[u].lock = "none"
    /\ tasks' = [tasks EXCEPT ![t].lock = "write"]
    /\ UNCHANGED << plugin_files, meta_files, database, signature_verifier, up,
                    uploaded, faulted, response, bearer_token, overflow_checks, writes >>

\* self.database.read(): no write guard exists
AcquireRead(t) ==
    /\ up
    /\ tasks[t].pc \in {"read_db", "find"}
    /\ tasks[t].lock = "none"
    /\ \A u \in Tasks : tasks[u].lock # "write"
    /\ tasks' = [tasks EXCEPT ![t].lock = "read"]
    /\ UNCHANGED << plugin_files, meta_files, database, signature_verifier, up,
                    uploaded, faulted, response, bearer_token, overflow_checks, writes >>

\* upload: database.insert_all(&metadata) under the write guard and
\* Ok(()); upload returns and the guard is dropped
LockedInsert(t) ==
    /\ up
    /\ tasks[t].pc = "insert"
    /\ tasks[t].lock = "write"
    /\ LET metadata == TaskMetadata(t, tasks[t].created_at)
           r == IF response.crate = "src"
                THEN [db |-> insert_all_entries(database, metadata), panicked |-> FALSE]
                ELSE insert_all(database, metadata)
       IN  /\ database' = r.db
           /\ tasks' = DropGuard(Finish(t, IF r.panicked THEN "Panic" ELSE "Added"), t)
           /\ uploaded' = IF r.panicked THEN uploaded
                          ELSE [uploaded EXCEPT ![tasks[t].digest] = "added"]
           /\ faulted' = (faulted \/ r.panicked)
    /\ UNCHANGED << plugin_files, meta_files, signature_verifier, up,
                    response, bearer_token, overflow_checks, writes >>

\* delete: database.delete_by_digest(digest) under the write guard, the
\* last statement of the block the guard lives in
LockedDeleteDb(t) ==
    /\ up
    /\ tasks[t].pc = "delete_db"
    /\ tasks[t].lock = "write"
    /\ database' = delete_by_digest(database, tasks[t].digest)
    /\ tasks' = DropGuard([tasks EXCEPT ![t].pc = "remove_file"], t)
    /\ uploaded' = [uploaded EXCEPT ![set_extension(tasks[t].digest)] =
                        IF @ = "deleting" /\ set_extension(tasks[t].digest) = tasks[t].digest
                        THEN "deleting" ELSE "no"]
    /\ UNCHANGED << plugin_files, meta_files, signature_verifier, up, faulted,
                    response, bearer_token, overflow_checks, writes >>

\* Storage::delete exists in the workspace crate only
LockedDeleteBegin(t, d) ==
    /\ response.crate = "memflow-registry"
    /\ DeleteBegin(t, d)

\* get_plugins (plugin_find of the service in src/src): the handler is entered
ReadBegin(t) ==
    /\ up
    /\ tasks[t].pc = "idle"
    /\ tasks' = [tasks EXCEPT ![t] = [IdleTask EXCEPT !.op = "plugins", !.pc = "read_db"]]
    /\ UNCHANGED << plugin_files, meta_files, database, signature_verifier, up,
                    uploaded, faulted, response, bearer_token, overflow_checks, writes >>

\* get_plugins: storage.database().plugins(); plugin_find of the service in
\* src/src: storage.database().find(params); the guard is a temporary of
\* that statement
ReadCatalog(t) ==
    /\ tasks[t].pc = "read_db"
    /\ tasks[t].lock = "read"
    /\ LET empty == IF response.crate = "src"
                    THEN find(database, NoFindParams) = << >>
                    ELSE PluginNames(database) = {}
       IN  tasks' = DropGuard(Finish(t, IF empty THEN "Empty" ELSE "Ok"), t)
    /\ UNCHANGED << plugin_files, meta_files, database, signature_verifier, up,
                    uploaded, faulted, response, bearer_token, overflow_checks, writes >>

\* Storage::download is entered: the one of src/src looks the digest up in
\* the catalog first, the one of the workspace crate goes for the file
DownloadBegin(t, digest) ==
    /\ up
    /\ tasks[t].pc = "idle"
    /\ tasks' = [tasks EXCEPT ![t] =
                    [IdleTask EXCEPT !.op = "download", !.digest = digest,
                                     !.pc = IF response.crate = "src" THEN "find"
                                            ELSE "open_file"]]
    /\ UNCHANGED << plugin_files, meta_files, database, signature_verifier, up,
                    uploaded, faulted, response, bearer_token, overflow_checks, writes >>

\* src/src: lock.find(digest, limit 1).first().ok_or_else(NotFound), the
\* last statement of the block the guard lives in
DownloadFind(t) ==
    /\ tasks[t].pc = "find"
    /\ tasks[t].lock = "read"
    /\ LET found == find(database, [NoFindParams EXCEPT !.digest = Some(tasks[t].digest),
                                                        !.limit = Some(1)])
       IN  tasks' = IF found = << >>
                    THEN DropGuard(Finish(t, "NotFound"), t)
                    ELSE DropGuard([tasks EXCEPT ![t].pc = "open_file",
                                                 ![t].digest = found[1].digest], t)
    /\ UNCHANGED << plugin_files, meta_files, database, signature_verifier, up,
                    uploaded, faulted, response, bearer_token, overflow_checks, writes >>

\* File::open(&file_name).await
DownloadOpen(t) ==
    /\ tasks[t].pc = "open_file"
    /\ tasks' = Finish(t, IF download(tasks[t].digest).ok THEN "Ok" ELSE "ErrIO")
    /\ UNCHANGED << plugin_files, meta_files, database, signature_verifier, up,
                    uploaded, faulted, response, bearer_token, overflow_checks, writes >>

\* the steps of a request that is under way
Progress(t) ==
    \/ UploadCreatePlugin(t)
    \/ UploadWritePlugin(t)
    \/ UploadCreateMeta(t)
    \/ UploadWriteMeta(t)
    \/ AcquireWrite(t)
    \/ AcquireRead(t)
    \/ LockedInsert(t)
    \/ LockedDeleteDb(t)
    \/ DeleteRemoveFile(t)
    \/ ReadCatalog(t)
    \/ DownloadFind(t)
    \/ DownloadOpen(t)
    \/ Respond(t)

NextLock ==
    \/ \E t \in Tasks, b \in LockBinaries, sig \in Signatures : UploadBegin(t, b, sig)
    \/ \E t \in Tasks, b \in LockBinaries : LockedDeleteBegin(t, Digest(b))
    \/ \E t \in Tasks : ReadBegin(t)
    \/ \E t \in Tasks, b \in LockBinaries : DownloadBegin(t, Digest(b))
    \/ \E t \in Tasks : Progress(t)
    \/ \E w \in writes.plugin : BlockingWritePartial(w)
    \/ \E file \in DOMAIN writes : \E w \in writes[file] : BlockingWriteDone(w)

SpecLock == InitLock /\ [][NextLock]_vars

(***************************************************************************)
(* PluginUri: the parser (FromStr) and the printer (Display) of both        *)
(* crates, on strings given as sequences of characters.                    *)
(***************************************************************************)
\* "http://" and "https://"
HttpScheme == << "h", "t", "t", "p", ":", "/", "/" >>

HttpsScheme == << "h", "t", "t", "p", "s", ":", "/", "/" >>

\* "https://registry.memflow.io", host abbreviated to one character
MEMFLOW_DEFAULT_REGISTRY == HttpsScheme \o << "r" >>

\* "latest", abbreviated to one character
DefaultVersion == << "l" >>

\* str::split(c): the pieces between the occurrences of c, at least one
split(str, c) ==
    LET at     == SelectSeq([i \in 1..Len(str) |-> i], LAMBDA i : str[i] = c)
        bounds == << 0 >> \o at \o << Len(str) + 1 >>
    IN  [k \in 1..(Len(at) + 1) |-> SubSeq(str, bounds[k] + 1, bounds[k + 1] - 1)]

RECURSIVE join(_, _)
\* [&str]::join(c)
join(pieces, c) ==
    IF Len(pieces) = 0 THEN << >>
    ELSE IF Len(pieces) = 1 THEN pieces[1]
    ELSE pieces[1] \o << c >> \o join(Tail(pieces), c)

\* str::starts_with
starts_with(str, prefix) ==
    Len(str) >= Len(prefix) /\ SubSeq(str, 1, Len(prefix)) = prefix

\* a split that takes the second segment alone as the version
split_image_second_segment(image) ==
    LET version == split(image, ":")
    IN  [image   |-> version[1],
         version |-> IF Len(version) > 1 THEN Some(version[2]) ELSE None]

\* the split of the last path segment into image name and version
split_image(image) ==
    LET version == split(image, ":")
    IN  [image   |-> version[1],
         version |-> IF Len(version) > 1 THEN Some(join(Tail(version), ":")) ELSE None]

\* <PluginUri as FromStr>::from_str of memflow-registry-shared
PluginUri_from_str(str) ==
    LET image    == split(str, "/")
        registry == SubSeq(image, 1, Len(image) - 1)
        last     == image[Len(image)]
        registry_url == join(registry, "/")
    IN  [registry |-> IF Len(registry) = 0 THEN None
                      ELSE IF starts_with(registry_url, HttpScheme)
                              \/ starts_with(registry_url, HttpsScheme)
                      THEN Some(registry_url)
                      ELSE Some(HttpsScheme \o registry_url),
         image    |-> split_image(last).image,
         version  |-> split_image(last).version]

\* PluginUri::registry and PluginUri::version of memflow-registry-shared
PluginUri_registry(uri) == unwrap_or(uri.registry, MEMFLOW_DEFAULT_REGISTRY)

PluginUri_version(uri) == unwrap_or(uri.version, DefaultVersion)

\* a printer that leaves out the colon in front of the version
PluginUri_fmt_without_colon(uri) ==
    (IF uri.registry # None THEN uri.registry[1] \o << "/" >> ELSE << >>)
        \o uri.image
        \o (IF uri.version # None THEN uri.version[1] ELSE << >>)

\* <PluginUri as Display>::fmt of memflow-registry-shared
PluginUri_fmt(uri) ==
    (IF uri.registry # None THEN uri.registry[1] \o << "/" >> ELSE << >>)
        \o uri.image
        \o (IF uri.version # None THEN << ":" >> \o uri.version[1] ELSE << >>)

\* PluginUri::with_defaults of the crate in src/src
with_defaults(plugin_uri, default_registry, default_version) ==
    LET image     == split(plugin_uri, "/")
        parts     == SubSeq(image, 1, Len(image) - 1)
        last      == image[Len(image)]
        registry  == IF Len(parts) = 0 THEN default_registry ELSE join(parts, "/")
    IN  [registry |-> IF ~starts_with(registry, HttpScheme)
                         /\ ~starts_with(registry, HttpsScheme)
                      THEN HttpsScheme \o registry
                      ELSE registry,
         image    |-> split_image(last).image,
         version  |-> unwrap_or(split_image(last).version, default_version)]

\* PluginUri::new and from_str of the crate in src/src
PluginUri_new(plugin_uri) ==
    with_defaults(plugin_uri, MEMFLOW_DEFAULT_REGISTRY, DefaultVersion)

\* <PluginUri as Display>::fmt of the crate in src/src: "{}/{}:{}"
PluginUri_fmt_with_defaults(uri) ==
    uri.registry \o << "/" >> \o uri.image \o << ":" >> \o uri.version

\* the fragments the input strings are put together from
UriTokens ==
    { HttpScheme, HttpsScheme, << "h", "t", "t", "p", ":", "/" >>,
      << "/" >>, << ":" >>, << "a" >> }

RECURSIVE concat(_)
concat(tokens) == IF Len(tokens) = 0 THEN << >> ELSE Head(tokens) \o concat(Tail(tokens))

UriInputs ==
    { concat(tokens) : tokens \in UNION { [1..n -> UriTokens] : n \in 0..MaxUriTokens } }

InitUri ==
    /\ plugin_files = EmptyMap
    /\ meta_files = EmptyMap
    /\ database = EmptyMap
    /\ signature_verifier = TRUE
    /\ up = TRUE
    /\ tasks = [t \in Tasks |-> IdleTask]
    /\ uploaded = [d \in Digests |-> "no"]
    /\ faulted = FALSE
    /\ response \in {[op |-> "uri", str |-> str] : str \in UriInputs}
    /\ bearer_token = None
    /\ overflow_checks = FALSE
    /\ writes = NoWrites

\* str.parse::<PluginUri>(), to_string(), parse again (memflow-registry-shared)
RoundTripShared ==
    /\ response.op \in {"uri", "round_trip"}
    /\ LET first   == PluginUri_from_str(response.str)
           printed == PluginUri_fmt(first)
       IN  response' = [op |-> "round_trip", crate |-> "shared", str |-> response.str,
                        first |-> first, printed |-> printed,
                        second |-> PluginUri_from_str(printed)]
    /\ UNCHANGED << plugin_files, meta_files, database, signature_verifier, up,
                    tasks, uploaded, faulted, bearer_token, overflow_checks, writes >>

\* the same with the PluginUri of the crate in src/src
RoundTripWithDefaults ==
    /\ response.op \in {"uri", "round_trip"}
    /\ LET first   == PluginUri_new(response.str)
           printed == PluginUri_fmt_with_defaults(first)
       IN  response' = [op |-> "round_trip", crate |-> "src", str |-> response.str,
                        first |-> first, printed |-> printed,
                        second |-> PluginUri_new(printed)]
    /\ UNCHANGED << plugin_files, meta_files, database, signature_verifier, up,
                    tasks, uploaded, faulted, bearer_token, overflow_checks, writes >>

NextUri == RoundTripShared \/ RoundTripWithDefaults

SpecUri == InitUri /\ [][NextUri]_vars

(***************************************************************************)
(* SignatureVerifier::is_valid on signature strings.  A string is the      *)
(* sequence of its UTF-8 bytes; "e0" and "e1" are the lead and the          *)
(* continuation byte of a two-byte character, every other byte is a        *)
(* character of its own.  ("sig_ok" above stands for the hex DER signature *)
(* of the uploaded bytes, "sig_bad" for a well-formed signature of         *)
(* something else.)                                                        *)
(***************************************************************************)
\* the characters signature strings are made of: hex digits of both cases,
\* a letter that is no hex digit, a sign, and a two-byte character
SigChars == { << "0" >>, << "A" >>, << "f" >>, << "g" >>, << "+" >>, << "e0", "e1" >> }

SigInputs ==
    { concat(chars) : chars \in UNION { [1..n -> SigChars] : n \in 0..MaxSigChars } }

\* the binaries the signatures are checked against
SigBytes == {0, 15}

\* char::to_digit(16)
to_digit(c) == CASE c = "0" -> 0 [] c = "A" -> 10 [] c = "f" -> 15 [] OTHER -> -1

\* u8::from_str_radix(piece, 16) for a piece of two bytes: two digits, or
\* a plus sign and one digit
from_str_radix(piece) ==
    IF to_digit(piece[1]) >= 0 /\ to_digit(piece[2]) >= 0
    THEN Ok(16 * to_digit(piece[1]) + to_digit(piece[2]))
    ELSE IF piece[1] = "+" /\ to_digit(piece[2]) >= 0 THEN Ok(to_digit(piece[2]))
    ELSE Err("Parse")

\* str::is_char_boundary for the 0-based byte index i
is_char_boundary(str, i) == i = 0 \/ i = Len(str) \/ (i < Len(str) /\ str[i + 1] # "e1")

RECURSIVE decode_from(_, _, _)
\* (0..s.len()).step_by(2).map(..).collect(): piece after piece from byte i
\* on; slicing off a character boundary or past the end panics
decode_from(str, i, acc) ==
    IF i >= Len(str) THEN [panicked |-> FALSE, res |-> Ok(acc)]
    ELSE IF i + 2 > Len(str) \/ ~is_char_boundary(str, i) \/ ~is_char_boundary(str, i + 2)
    THEN [panicked |-> TRUE, res |-> Err("")]
    ELSE IF ~from_str_radix(SubSeq(str, i + 1, i + 2)).ok
    THEN [panicked |-> FALSE, res |-> Err("Parse")]
    ELSE decode_from(str, i + 2, Append(acc, from_str_radix(SubSeq(str, i + 1, i + 2)).val))

\* a decoder that checks the minimum length only
decode_hex_without_parity(str) ==
    IF Len(str) < 2 THEN [panicked |-> FALSE, res |-> Err("Parse")]
    ELSE decode_from(str, 0, << >>)

\* pki::decode_hex
decode_hex(str) ==
    IF Len(str) < 2 \/ Len(str) % 2 # 0 THEN [panicked |-> FALSE, res |-> Err("Parse")]
    ELSE decode_from(str, 0, << >>)

\* the DER signature the registry's key pair yields for the bytes
SignatureOf(bytes) == << 10, 240 + bytes >>

\* SignatureVerifier::is_valid: decode_hex, Signature::from_der, verify
is_valid_str(bytes, signature) ==
    LET hex == decode_hex(signature)
    IN  IF hex.panicked \/ ~hex.res.ok THEN hex
        ELSE IF hex.res.val # SignatureOf(bytes)
        THEN [panicked |-> FALSE, res |-> Err("Signature")]
        ELSE [panicked |-> FALSE, res |-> Ok(<< >>)]

InitPki ==
    /\ plugin_files = EmptyMap
    /\ meta_files = EmptyMap
    /\ database = EmptyMap
    /\ signature_verifier = TRUE
    /\ up = TRUE
    /\ tasks = [t \in Tasks |-> IdleTask]
    /\ uploaded = [d \in Digests |-> "no"]
    /\ faulted = FALSE
    /\ response \in {[op |-> "signature", signature |-> sig] : sig \in SigInputs}
    /\ bearer_token = None
    /\ overflow_checks = FALSE
    /\ writes = NoWrites

\* signature_verifier.is_valid(bytes, signature)
CallIsValid(bytes) ==
    /\ response.op \in {"signature", "is_valid"}
    /\ LET r == is_valid_str(bytes, response.signature)
       IN  response' = [op |-> "is_valid", signature |-> response.signature,
                        bytes |-> bytes, panicked |-> r.panicked, res |-> r.res]
    /\ UNCHANGED << plugin_files, meta_files, database, signature_verifier, up,
                    tasks, uploaded, faulted, bearer_token, overflow_checks, writes >>

NextPki == \E bytes \in SigBytes : CallIsValid(bytes)

SpecPki == InitPki /\ [][NextPki]_vars

(***************************************************************************)
(* ELF relocations of a raw descriptor (src/src/storage/plugin_analyzer.rs) *)
(*                                                                         *)
(* Machine words are little-endian sequences of 16-bit limbs so that the   *)
(* 32- and 64-bit wrap-around is computed exactly: a u32 is 2 limbs, a u64 *)
(* 4 limbs and the i64 addend 4 limbs in two's complement.  Offsets are    *)
(* counted in fields of size_of::<N>() bytes.                              *)
(***************************************************************************)
MaxRelocs == 2

LimbBase == 65536
SignLimb == 32768

Zero(n) == [i \in 1..n |-> 0]

RECURSIVE add_carry(_, _, _)
add_carry(a, b, i) ==
    IF i = 0 THEN 0 ELSE (a[i] + b[i] + add_carry(a, b, i - 1)) \div LimbBase

\* N::wrapping_add
wrapping_add(a, b) ==
    [i \in 1..Len(a) |-> (a[i] + b[i] + add_carry(a, b, i - 1)) % LimbBase]

RECURSIVE sub_borrow(_, _, _)
sub_borrow(a, b, i) ==
    IF i = 0 THEN 0
    ELSE IF a[i] - b[i] - sub_borrow(a, b, i - 1) < 0 THEN 1 ELSE 0

\* N::wrapping_sub
wrapping_sub(a, b) ==
    [i \in 1..Len(a) |->
        (LimbBase + a[i] - b[i] - sub_borrow(a, b, i - 1)) % LimbBase]

\* addend > 0 on an i64
is_positive(addend) == addend[4] < SignLimb /\ addend # Zero(4)

\* -addend on an i64: i64::MIN has no negation; a build with overflow checks
\* panics there and a build without them wraps back to i64::MIN, which the
\* cast below refuses, so both builds end in the same panic
neg(addend) == wrapping_sub(Zero(4), addend)

\* num_traits::cast::<i64, N>(x): None unless 0 <= x <= N::MAX
cast(x, n) ==
    IF x[4] >= SignLimb \/ \E i \in (n + 1)..4 : x[i] # 0
    THEN None
    ELSE Some([i \in 1..n |-> x[i]])

\* the body of the loop for one relocation
apply_reloc(n, reloc, va_range, obj) ==
    IF ~(reloc.r_offset >= va_range.start /\ reloc.r_offset < va_range.end)
    THEN [panicked |-> FALSE, res |-> Ok("next"), obj |-> obj]
    ELSE LET field_offset == reloc.r_offset - va_range.start
         IN  IF field_offset + 1 > Len(obj)
             THEN [panicked |-> TRUE, res |-> Ok("next"), obj |-> obj]
             ELSE LET value == obj[field_offset + 1]
                      addend == IF reloc.r_addend = None THEN Zero(4)
                                ELSE reloc.r_addend[1]
                      operand == IF is_positive(addend) THEN cast(addend, n)
                                 ELSE cast(neg(addend), n)
                  IN  IF value # Zero(n)
                      THEN [panicked |-> FALSE, res |-> Ok("next"), obj |-> obj]
                      ELSE IF reloc.r_type # 8 /\ reloc.r_type # 23 /\ reloc.r_type # 1027
                      THEN [panicked |-> FALSE, res |-> Err("Parse"), obj |-> obj]
                      ELSE IF operand = None
                      THEN [panicked |-> TRUE, res |-> Ok("next"), obj |-> obj]
                      ELSE [panicked |-> FALSE, res |-> Ok("next"),
                            obj |-> [obj EXCEPT ![field_offset + 1] =
                                        IF is_positive(addend)
                                        THEN wrapping_add(value, operand[1])
                                        ELSE wrapping_sub(value, operand[1])]]

RECURSIVE apply_relocs_from(_, _, _, _, _)
apply_relocs_from(n, relocs, va_range, obj, i) ==
    IF i > Len(relocs) THEN [panicked |-> FALSE, res |-> Ok("unit"), obj |-> obj]
    ELSE LET r == apply_reloc(n, relocs[i], va_range, obj)
         IN  IF r.panicked \/ ~r.res.ok THEN r
             ELSE apply_relocs_from(n, relocs, va_range, r.obj, i + 1)

\* elf_apply_relocs::<N, T>(elf, va_range, obj); relocs are the entries of
\* elf.shdr_relocs in iteration order, n the number of limbs of N
elf_apply_relocs(n, relocs, va_range, obj) ==
    apply_relocs_from(n, relocs, va_range, obj, 1)

I64Values ==
    { << 1, 0, 0, 0 >>,                          \* 1
      << 65535, 65535, 65535, 65535 >>,          \* -1
      << 65535, 65535, 0, 0 >>,                  \* u32::MAX
      << 0, 0, 1, 0 >>,                          \* 2^32
      << 0, 0, 65535, 65535 >>,                  \* -2^32
      << 65535, 65535, 65535, 32767 >>,          \* i64::MAX
      << 0, 0, 0, 32768 >> }                     \* i64::MIN

\* the address range of the descriptor symbol: two fields
RelocRange == [start |-> 1, end |-> 3]

\* the addends of a 32-bit ELF: goblin reads an i32 and widens it to i64
I32Values ==
    { << 1, 0, 0, 0 >>,                          \* 1
      << 65535, 65535, 65535, 65535 >>,          \* -1
      << 65535, 32767, 0, 0 >>,                  \* i32::MAX
      << 0, 32768, 65535, 65535 >> }             \* i32::MIN

\* relocation entries below, at and inside the range, of a type that is not
\* relative (7) and of the three relative types, with the addends a 32-bit
\* (n = 2) or a 64-bit (n = 4) ELF can hold
RelocInputs(n) ==
    [r_offset : {0, 1, 2}, r_type : {7, 8, 23, 1027},
     r_addend : {None} \cup {Some(a) : a \in IF n = 2 THEN I32Values ELSE I64Values}]

\* a raw descriptor of two pointer fields read from the file, the first
\* unset and the second set, of a 32-bit (2 limbs) or 64-bit (4 limbs) ELF
InitReloc ==
    /\ plugin_files = EmptyMap
    /\ meta_files = EmptyMap
    /\ database = EmptyMap
    /\ signature_verifier = TRUE
    /\ up = TRUE
    /\ tasks = [t \in Tasks |-> IdleTask]
    /\ uploaded = [d \in Digests |-> "no"]
    /\ faulted = FALSE
    /\ response \in {[op |-> "raw_desc", n |-> n,
                       obj |-> << Zero(n), [i \in 1..n |-> 7] >>] : n \in {2, 4}}
    /\ bearer_token = None
    /\ overflow_checks = FALSE
    /\ writes = NoWrites

\* elf_apply_relocs::<N, _>(elf, sym.st_value..sym.st_value + sym.st_size, &mut raw_desc)
CallElfApplyRelocs(relocs) ==
    /\ response.op = "raw_desc"
    /\ LET r == elf_apply_relocs(response.n, relocs, RelocRange, response.obj)
       IN  response' = [op |-> "relocated", n |-> response.n, obj |-> response.obj,
                        relocs |-> relocs, panicked |-> r.panicked, res |-> r.res,
                        out |-> r.obj]
    /\ UNCHANGED << plugin_files, meta_files, database, signature_verifier, up,
                    tasks, uploaded, faulted, bearer_token, overflow_checks, writes >>

\* one call per raw descriptor read from the file
NextReloc ==
    /\ response.op = "raw_desc"
    /\ \E k \in 0..MaxRelocs : \E relocs \in [1..k -> RelocInputs(response.n)] :
           CallElfApplyRelocs(relocs)

SpecReloc == InitReloc /\ [][NextReloc]_vars

(***************************************************************************)
(* The file part of an upload request and the is_binary gate.  A file is   *)
(* its first bytes: the four bytes of the magic number and some bytes of   *)
(* content.  A u32 is written as the four bytes it occupies in the memory  *)
(* of a little-endian host, so that view.read::<u32>(0) is the first four  *)
(* bytes of the buffer.                                                    *)
(***************************************************************************)
\* bytes of a multipart chunk, and of a file
MaxChunk == 3
MaxFileLen == 17

InitGate ==
    /\ plugin_files = EmptyMap
    /\ meta_files = EmptyMap
    /\ database = EmptyMap
    /\ signature_verifier = TRUE
    /\ up = TRUE
    /\ tasks = [t \in Tasks |-> IdleTask]
    /\ uploaded = [d \in Digests |-> "no"]
    /\ faulted = FALSE
    /\ response \in {[op |-> "file_part", file |-> f, data |-> << >>, checked |-> FALSE,
                      status |-> "reading", kind |-> ""] :
                        f \in {magic \o [i \in 1..k |-> 0] :
                                  magic \in FileMagics, k \in 0..(MaxFileLen - 4)}}
    /\ bearer_token = None
    /\ overflow_checks = FALSE
    /\ writes = NoWrites

\* one round of `while let Some(chunk) = field.chunk().await`: the chunk is
\* appended and, once, the buffer of more than 4 bytes is shown to is_binary
ReceiveChunk(n) ==
    /\ response.op = "file_part"
    /\ response.status = "reading"
    /\ Len(response.data) < Len(response.file)
    /\ Len(response.data) + n <= Len(response.file)
    /\ LET data == SubSeq(response.file, 1, Len(response.data) + n)
           check == ~response.checked /\ Len(data) > 4
       IN  response' =
             IF check /\ ~is_binary(data).ok
             THEN [response EXCEPT !.data = data, !.status = "BAD_REQUEST"]
             ELSE [response EXCEPT !.data = data,
                                   !.checked = (response.checked \/ check)]
    /\ UNCHANGED << plugin_files, meta_files, database, signature_verifier, up,
                    tasks, uploaded, faulted, bearer_token, overflow_checks, writes >>

\* the part has ended: file_data = Some(data.freeze()), and storage.upload
\* hands the bytes to parse_descriptors
EndOfPart ==
    /\ response.op = "file_part"
    /\ response.status = "reading"
    /\ Len(response.data) = Len(response.file)
    /\ response' = [response EXCEPT !.status = "file_data",
                                    !.kind = Object_parse(response.data)]
    /\ UNCHANGED << plugin_files, meta_files, database, signature_verifier, up,
                    tasks, uploaded, faulted, bearer_token, overflow_checks, writes >>

NextGate ==
    \/ \E n \in 1..MaxChunk : ReceiveChunk(n)
    \/ EndOfPart

SpecGate == InitGate /\ [][NextGate]_vars

(***************************************************************************)
(* Properties                                                               *)
(***************************************************************************)
Quiescent == \A t \in Tasks : tasks[t].pc \in {"idle", "done"}

\* a precedes-or-equals b in (plugin_version DESC, created_at DESC)
InOrder(a, b) ==
    \/ a.descriptor.plugin_version > b.descriptor.plugin_version
    \/ /\ a.descriptor.plugin_version = b.descriptor.plugin_version
       /\ a.created_at >= b.created_at

SameKey(a, b) ==
    /\ a.descriptor.plugin_version = b.descriptor.plugin_version
    /\ a.created_at = b.created_at

SortedDesc(vec) == \A i \in 1..(Len(vec) - 1) : InOrder(vec[i], vec[i + 1])

\* C1: after any sequence of insert_all and delete_by_digest calls, every
\* name's variants are sorted by plugin_version descending and, for equal
\* plugin_version, by created_at descending.
C1_SortedVariants == \A n \in DOMAIN database : SortedDesc(database[n])

\* a delete_by_digest has returned and some name still holds variants of
\* two plugin_versions and, under one plugin_version, of two created_at
C1_Witness ==
    /\ response.op = "delete_by_digest"
    /\ \E n \in DOMAIN database :
          LET vec == database[n]
          IN  /\ \E i, j \in 1..Len(vec) :
                     vec[i].descriptor.plugin_version # vec[j].descriptor.plugin_version
              /\ \E i, j \in 1..Len(vec) :
                     /\ vec[i].descriptor.plugin_version = vec[j].descriptor.plugin_version
                     /\ vec[i].created_at # vec[j].created_at

\* C2: in every quiescent state reached by uploads, deletes and restarts
\* (no request cut short), every variant of the catalog has its
\* {digest}.plugin file on disk.
C2_VariantHasPluginFile ==
    (up /\ Quiescent /\ ~faulted) =>
        \A v \in AllVariants(database) : v.digest \in DOMAIN plugin_files

\* C5: after a successful upload of B with digest D, a successful
\* delete(D) and then a restart, the catalog has no variant with digest D
\* and neither D.plugin nor D.meta is on disk.
C5_DeleteThenRestart ==
    [][\A d \in Digests :
          (uploaded[d] = "deleted" /\ ~faulted /\ Restart) =>
              /\ find_by_digest(database', d) = {}
              /\ d \notin DOMAIN plugin_files'
              /\ d \notin DOMAIN meta_files']_vars

\* same catalog: the same names with the same variants in the same order
\* (a name without variants counts as absent)
SameCatalog(db1, db2) == \A n \in Names : Variants(db1, n) = Variants(db2, n)

\* C6: after any sequence of completed uploads and deletes, a restart
\* (whatever the enumeration order of the root directory) succeeds and
\* yields a catalog equal to the one before the restart.
C6_RestartKeepsCatalog ==
    [][(up /\ ~faulted /\ Restart) => (up' /\ SameCatalog(database, database'))]_vars

\* number of variants of a digest stored under a name
CountDigest(db, n, d) ==
    Cardinality({i \in 1..Len(Variants(db, n)) : Variants(db, n)[i].digest = d})

\* number of descriptors of a binary that carry a name
CountDescriptors(b, n) ==
    LET descs == parse_descriptors(b).val
    IN  Cardinality({i \in 1..Len(descs) : descs[i].name = n})

\* every descriptor of the binary has a variant in the catalog
HasAllVariants(db, b) ==
    LET descs == parse_descriptors(b).val
    IN  \A i \in 1..Len(descs) :
            \E v \in AllVariants(db) :
                v.digest = Digest(b) /\ v.descriptor = descs[i]

\* the catalog holds exactly one set of variants for the binary
ExactlyOneSet(db, b) ==
    /\ HasAllVariants(db, b)
    /\ \A n \in Names : CountDigest(db, n, Digest(b)) = CountDescriptors(b, n)

\* C3: of two sequential uploads of the same bytes with no delete in
\* between, the first returns Added and the second returns AlreadyExists,
\* the second leaves disk and catalog unchanged, and the catalog then holds
\* exactly one set of variants for the digest.
C3_UploadTwice ==
    [][/\ (UploadInsert(1) /\ ~faulted /\ uploaded[tasks[1].digest] = "begun")
            => tasks'[1].res = "Added"
       /\ \A b \in Binaries, sig \in Signatures :
            (UploadBegin(1, b, sig) /\ Accepted(b, sig) /\ ~faulted
                /\ uploaded[Digest(b)] = "added")
            => /\ tasks'[1].res = "AlreadyExists"
               /\ UNCHANGED << plugin_files, meta_files, database >>
               /\ ExactlyOneSet(database', b)]_vars


\* C4: an upload that fails at signature verification (verifier configured,
\* is_valid fails) or at descriptor parsing returns an error and leaves the
\* .plugin files, the .meta files and the catalog exactly as they were
\* before the call.
C4_FailedUploadChangesNothing ==
    [][(tasks[1].pc = "idle" /\ tasks'[1].op = "upload") =>
          ((\/ (signature_verifier
                   /\ ~is_valid(tasks'[1].bytes, tasks'[1].signature).ok)
            \/ ~parse_descriptors(tasks'[1].bytes).ok)
               => /\ tasks'[1].pc = "done"
                  /\ tasks'[1].res \in {"ErrSignature", "ErrParse"}
                  /\ UNCHANGED << plugin_files, meta_files, database >>)]_vars

\* C7: of two concurrent uploads of the same bytes at most one passes the
\* existence check and returns Added, the other one returns AlreadyExists,
\* and afterwards the catalog holds exactly one set of variants for the
\* digest.  (An upload that finishes while the digest counts as added, with
\* no delete since, is the other one.)
C7_ConcurrentUploads ==
    [][\A t \in Tasks :
          (/\ tasks'[t].op = "upload"
           /\ tasks[t].pc # "done"
           /\ tasks'[t].pc = "done"
           /\ Accepted(tasks'[t].bytes, tasks'[t].signature)
           /\ ~faulted
           /\ uploaded[tasks'[t].digest] = "added")
          => /\ tasks'[t].res = "AlreadyExists"
             /\ ExactlyOneSet(database', tasks'[t].bytes)]_vars

\* the parameters of a query for all variants of a digest
ByDigest(d) ==
    [NoParams EXCEPT !.digest = Some(d), !.limit = Some(MAX_PLUGIN_VARIANTS)]

\* C8: once an upload has returned success, and until a delete of that
\* digest comes in, every catalog query (plugin_variants, plugins,
\* find_by_digest) observes all variants of the uploaded binary.
C8_UploadLinearizable ==
    \A d \in Digests :
        (up /\ uploaded[d] = "added") =>
            LET descs == parse_descriptors(BytesOf(d)).val
            IN  /\ find_by_digest(database, d) # {}
                /\ \A i \in 1..Len(descs) :
                      /\ \E k \in 1..Len(plugin_variants(database, descs[i].name, ByDigest(d))) :
                            plugin_variants(database, descs[i].name, ByDigest(d))[k].descriptor
                                = descs[i]
                      /\ descs[i].name \in PluginNames(database)

\* an upload has returned Added while another handler is still working on
\* the same digest
C8_Witness ==
    /\ up
    /\ \E t1, t2 \in Tasks :
          /\ t1 # t2
          /\ tasks[t1].op = "upload" /\ tasks[t1].res = "Added"
          /\ uploaded[tasks[t1].digest] = "added"
          /\ tasks[t2].digest = tasks[t1].digest
          /\ tasks[t2].pc \in {"create_plugin", "write_plugin", "create_meta",
                                "write_meta", "insert"}

\* the parameters of a query for one architecture
ByArchitecture(a) == [NoParams EXCEPT !.architecture = Some(a)]

\* C9: uploading the fat Mach-O whose arm64 and x86_64 slices both export
\* "native" inserts two variants under that name, plugin_variants returns
\* both, and a query filtered by architecture=arm64 returns exactly one.
C9_FatMachOTwoVariants ==
    [][(/\ tasks[1].op = "upload" /\ tasks[1].bytes = 3
        /\ tasks[1].pc = "insert" /\ tasks'[1].pc = "done"
        /\ ~faulted
        /\ AllVariants(database) = {})
       => /\ tasks'[1].res = "Added"
          /\ CountDigest(database', "native", Digest(3)) = 2
          /\ Len(plugin_variants(database', "native", NoParams)) = 2
          /\ Len(plugin_variants(database', "native", ByArchitecture("arm64"))) = 1]_vars

\* C10: in every reachable catalog state no two variants stored under the
\* same name have both the same plugin_version and the same created_at.
C10_NoSharedKey ==
    \A n \in DOMAIN database :
        \A i, j \in 1..Len(database[n]) :
            i < j => ~SameKey(database[n][i], database[n][j])

\* C11: in every reachable disk state, crash points inside upload and
\* delete included, a {digest}.meta on disk has its {digest}.plugin on disk.
C11_MetaImpliesPlugin ==
    \A d \in DOMAIN meta_files : d \in DOMAIN plugin_files

\* no answer of plugin_variants, plugins or find_by_digest rests on a
\* variant of the digest
Unobservable(db, d) ==
    /\ find_by_digest(db, d) = {}
    /\ \A n \in Names :
          /\ plugin_variants(db, n, ByDigest(d)) = << >>
          /\ n \in PluginNames(db)
                => \E v \in AllVariants(db) : v.descriptor.name = n /\ v.digest # d

\* C12: after delete(d) has returned success and until d is uploaded
\* again, download(d) fails and no plugin_variants, plugins or
\* find_by_digest answer contains a variant with digest d.
C12_DeletedStaysGone ==
    \A d \in Digests :
        (up /\ ~faulted /\ uploaded[d] = "deleted") =>
            (~download(d).ok /\ Unobservable(database, d))

\* C13: after upload(b, sig) has returned success and until the digest is
\* deleted, download(sha256(b)) succeeds and yields exactly the bytes b.
C13_DownloadReturnsUpload ==
    \A d \in Digests :
        (up /\ uploaded[d] = "added") => download(d) = Ok(<< BytesOf(d) >>)

(***************************************************************************)
(* Queries on the catalog                                                  *)
(***************************************************************************)
\* the sequence without its first n elements, and its first n elements
Drop(v, n) == SubSeq(v, Min(n, Len(v)) + 1, Len(v))

Take(v, n) == SubSeq(v, 1, Min(n, Len(v)))

\* v is the first len(v) characters of d
IsPrefix(v, d) == StrLen(v) <= StrLen(d) /\ Chars(v) = SubSeq(Chars(d), 1, StrLen(v))

\* p satisfies every predicate the query provides
SatisfiesAll(p, params) ==
    /\ params.version = None \/ params.version = Some(p.descriptor.version)
    /\ params.memflow_plugin_version = None
          \/ params.memflow_plugin_version = Some(p.descriptor.plugin_version)
    /\ params.file_type = None \/ params.file_type = Some(p.descriptor.file_type)
    /\ params.architecture = None \/ params.architecture = Some(p.descriptor.architecture)
    /\ params.digest = None \/ params.digest = Some(p.digest)
    /\ params.digest_short = None \/ params.digest_short = Some(Prefix7(p.digest))

\* the same for the crate in src/src, where version also matches a digest prefix
SatisfiesAllByVersion(p, params) ==
    /\ params.version = None
          \/ params.version = Some(p.descriptor.version)
          \/ IsPrefix(params.version[1], p.digest)
    /\ params.memflow_plugin_version = None
          \/ params.memflow_plugin_version = Some(p.descriptor.plugin_version)
    /\ params.file_type = None \/ params.file_type = Some(p.descriptor.file_type)
    /\ params.architecture = None \/ params.architecture = Some(p.descriptor.architecture)

Page(db, name, params, Keep(_, _)) ==
    IF name \notin DOMAIN db THEN << >>
    ELSE Take(SelectSeq(Drop(db[name], unwrap_or(params.skip, 0)),
                        LAMBDA p : Keep(p, params)),
              Min(unwrap_or(params.limit, DEFAULT_PLUGIN_VARIANTS), MAX_PLUGIN_VARIANTS))

\* C14: plugin_variants(name, params) returns, in stored order, the first
\* min(limit, 50) elements (limit defaulting to 5) of what is left of the
\* name's variants after dropping the first skip (default 0) and keeping
\* those that satisfy every provided predicate; an unknown name yields the
\* empty list.  Stated for both crates: every query returns that list.
C14_FirstLimitAfterSkip ==
    /\ response.op = "plugin_variants" =>
           response.val = Page(database, response.name, response.params, SatisfiesAll)
    /\ response.op = "plugin_variants_by_version" =>
           /\ ~response.panicked
           /\ response.val = Page(database, response.name, response.params,
                                  SatisfiesAllByVersion)

\* C15: for every version string v, of any length, plugin_variants with
\* version = v returns a result, and it keeps a variant iff v equals its
\* descriptor's version or the first len(v) characters of its digest.
C15_VersionOrDigestPrefix ==
    (response.op = "plugin_variants_by_version" /\ response.params.version # None) =>
        /\ ~response.panicked
        /\ response.val = Page(database, response.name, response.params,
                               SatisfiesAllByVersion)

\* C16: plugins() returns a list sorted by name with exactly one entry for
\* each name that has at least one variant, and none for a name whose
\* variants have all been deleted.
C16_PluginsSortedOnePerName ==
    response.op = "plugins" =>
        LET v == response.val
        IN  /\ \A i, j \in 1..Len(v) : i < j => NameRank(v[i].name) < NameRank(v[j].name)
            /\ {v[i].name : i \in 1..Len(v)}
                  = {n \in DOMAIN database : Len(database[n]) > 0}

\* a listing of a catalog in which one name has several variants and
\* another has lost all of its variants to a delete
C16_Witness ==
    /\ response.op = "plugins"
    /\ Len(response.val) = 1
    /\ Len(database[response.val[1].name]) > 1
    /\ \E n \in DOMAIN database : Len(database[n]) = 0

\* C17: delete_by_digest(d) removes from every bucket every variant whose
\* digest is d and leaves every other variant present, unmodified and in the
\* same relative order.
C17_DeleteByDigestFrame ==
    response.op = "delete_by_digest" =>
        /\ DOMAIN database = DOMAIN response.before
        /\ \A n \in DOMAIN database :
               database[n] = SelectSeq(response.before[n],
                                       LAMBDA p : p.digest # response.digest)

\* a delete that removed variants from two buckets and left several others
C17_Witness ==
    /\ response.op = "delete_by_digest"
    /\ \A n \in Names :
           /\ n \in DOMAIN database
           /\ Len(database[n]) < Len(response.before[n])
    /\ Len(database["coredump"]) > 1

(***************************************************************************)
(* The gateway                                                             *)
(***************************************************************************)
\* C18: delete(digest) for a digest whose {digest}.plugin file does not
\* exist returns NotFound, which the gateway reports as HTTP 404, and changes
\* neither the disk nor the catalog.
C18_DeleteMissingIs404 ==
    [][(tasks[1].pc = "idle" /\ tasks'[1].op = "delete"
            /\ set_extension(tasks'[1].digest) \notin DOMAIN plugin_files) =>
          /\ tasks'[1].pc = "done"
          /\ tasks'[1].res = "NotFound"
          /\ status_code(tasks'[1].op, tasks'[1].res) = 404
          /\ UNCHANGED << plugin_files, meta_files, database >>]_vars

\* C19: with a non-empty bearer token configured, an upload or delete
\* request carrying a different token never reaches its handler, and its
\* rejection is a 401 that leaves disk and catalog unchanged; with the token
\* unset or empty no request to the write paths is rejected for its token;
\* the read endpoint answers without a token (200 or 404).
C19_BearerToken ==
    [][/\ (response.op = "request" /\ tasks[1].pc = "idle") =>
             /\ (bearer_token \notin {None, Some("")}
                     /\ response.authorization # bearer_token) =>
                    /\ tasks'[1].pc = "idle"
                    /\ response'.op = "rejected" =>
                           /\ response'.status = 401
                           /\ UNCHANGED << plugin_files, meta_files, database >>
             /\ bearer_token \in {None, Some("")} => response'.op # "rejected"
       /\ response'.op = "find_file_by_digest" => response'.status \in {200, 404}
      ]_vars

(***************************************************************************)
(* Plugin URIs                                                             *)
(***************************************************************************)
\* C20: for every input string, parsing it, printing the result and parsing
\* the printed string again yields a PluginUri with the same registry, name
\* and version as the first parse (in both crates).
C20_ParsePrintParse ==
    response.op = "round_trip" =>
        /\ response.second.registry = response.first.registry
        /\ response.second.image = response.first.image
        /\ response.second.version = response.first.version

\* a round trip of an input without a scheme, whose registry was prefixed
\* with https:// by the first parse, and which carries a version
C20_Witness ==
    /\ response.op = "round_trip"
    /\ response.crate = "shared"
    /\ response.first.registry # None
    /\ ~starts_with(response.str, HttpsScheme)
    /\ ~starts_with(response.str, HttpScheme)
    /\ response.first.version # None
    /\ Len(response.first.image) > 0

\* position of the last occurrence of c in str, 0 when there is none
LastIndexOf(str, c) ==
    IF \E i \in 1..Len(str) : str[i] = c
    THEN CHOOSE i \in 1..Len(str) : str[i] = c /\ \A j \in (i + 1)..Len(str) : str[j] # c
    ELSE 0

\* position of the first occurrence of c in str, Len(str) + 1 when there is none
FirstIndexOf(str, c) ==
    IF \E i \in 1..Len(str) : str[i] = c
    THEN CHOOSE i \in 1..Len(str) : str[i] = c /\ \A j \in 1..(i - 1) : str[j] # c
    ELSE Len(str) + 1

\* what the parse of str is to be: registry, name and version as text
ExpectedUri(str) ==
    LET slash == LastIndexOf(str, "/")
        token == SubSeq(str, slash + 1, Len(str))
        before == SubSeq(str, 1, slash - 1)
        colon == FirstIndexOf(token, ":")
    IN  [registry |-> IF slash = 0 THEN MEMFLOW_DEFAULT_REGISTRY
                      ELSE IF starts_with(before, HttpScheme)
                              \/ starts_with(before, HttpsScheme)
                      THEN before
                      ELSE HttpsScheme \o before,
         image    |-> SubSeq(token, 1, colon - 1),
         version  |-> IF colon > Len(token) THEN DefaultVersion
                      ELSE SubSeq(token, colon + 1, Len(token))]

\* C21: parsing a plugin URI takes the last '/'-separated segment as the
\* image token and everything before it as the registry, prefixed with
\* https:// unless it starts with http:// or https://, the default registry
\* when there is none; the image token up to its first ':' is the name and
\* the rest is the version, "latest" when there is none (in both crates).
C21_ParsedComponents ==
    response.op = "round_trip" =>
        LET uri == response.first
            expected == ExpectedUri(response.str)
        IN  /\ uri.image = expected.image
            /\ response.crate = "shared" =>
                   /\ PluginUri_registry(uri) = expected.registry
                   /\ PluginUri_version(uri) = expected.version
            /\ response.crate = "src" =>
                   /\ uri.registry = expected.registry
                   /\ uri.version = expected.version

\* the parse of a string with a registry that lacks a scheme and a version
\* that contains a colon
C21_Witness ==
    /\ response.op = "round_trip"
    /\ response.crate = "shared"
    /\ LastIndexOf(response.str, "/") > 1
    /\ ~starts_with(response.str, HttpScheme)
    /\ ~starts_with(response.str, HttpsScheme)
    /\ response.first.version # None
    /\ \E i \in 1..Len(response.first.version[1]) : response.first.version[1][i] = ":"

(***************************************************************************)
(* Signatures                                                              *)
(***************************************************************************)
\* C22: is_valid called with a signature string of odd length or of length
\* below 2 returns a Parse error, not a Signature error (length as str::len
\* counts it, in bytes).
C22_OddLengthIsParseError ==
    (response.op = "is_valid"
        /\ (Len(response.signature) < 2 \/ Len(response.signature) % 2 = 1)) =>
        /\ ~response.panicked
        /\ ~response.res.ok
        /\ response.res.err = "Parse"

\* is_valid has answered a signature of three hex digits
C22_Witness ==
    /\ response.op = "is_valid"
    /\ Len(response.signature) = 3
    /\ \A i \in 1..3 : to_digit(response.signature[i]) >= 0
    /\ response.res.err = "Parse"

(***************************************************************************)
(* Descriptors                                                             *)
(***************************************************************************)
\* C23: parse_descriptors returns either a non-empty descriptor list or an
\* error, so every sidecar written by upload has a non-empty descriptors
\* list whose entries all share one plugin_version.
C23_SidecarDescriptors ==
    /\ \A t \in Tasks :
           (tasks[t].op = "upload" /\ tasks[t].pc \notin {"idle", "done"}) =>
               Len(parse_descriptors(tasks[t].bytes).val) > 0
    /\ \A d \in DOMAIN meta_files :
           from_str(meta_files[d]).ok =>
               LET descriptors == from_str(meta_files[d]).val.descriptors
               IN  /\ Len(descriptors) > 0
                   /\ \A i, j \in 1..Len(descriptors) :
                          descriptors[i].plugin_version = descriptors[j].plugin_version

(***************************************************************************)
(* The catalog lock                                                        *)
(***************************************************************************)
\* task t does file I/O in this step, each such step being a suspension
\* point: it creates, opens or removes a file or hands bytes to the blocking
\* pool
FileIO(t) ==
    /\ tasks'[t].pc # tasks[t].pc
    /\ tasks[t].pc \in {"create_plugin", "write_plugin", "create_meta",
                        "write_meta", "remove_file", "open_file"}

\* both files of the upload of task t hold what the upload wrote
FilesWritten(t) ==
    /\ download(tasks[t].digest) = Ok(<< tasks[t].bytes >>)
    /\ tasks[t].digest \in DOMAIN meta_files
    /\ meta_files[tasks[t].digest] = to_string(TaskMetadata(t, tasks[t].created_at))

\* C24: no task holds the catalog lock (read or write) across a file I/O
\* step or a suspension point: an upload that holds the write guard has both
\* of its files written, a delete that unlinks and a download that opens
\* its file hold no guard; the write guards are exclusive; and no
\* interleaving of uploads, deletes, queries and downloads deadlocks:
\* whenever requests are under way, one of them can take a step.
C24_LockNotHeldAcrossIO ==
    /\ [][\A t \in Tasks : FileIO(t) => tasks[t].lock = "none"]_vars
    /\ [](\A t \in Tasks :
             (tasks[t].op = "upload" /\ tasks[t].lock = "write") => FilesWritten(t))
    /\ [](\A t, u \in Tasks :
             (t # u /\ tasks[t].lock = "write") => tasks[u].lock = "none")
    /\ []((\E t \in Tasks : tasks[t].pc # "idle") =>
             \E u \in Tasks : ENABLED Progress(u))

(***************************************************************************)
(* Interrupted uploads                                                     *)
(***************************************************************************)
\* C25: if an upload is interrupted after writing {digest}.plugin and before
\* writing {digest}.meta, then after the next startup the service is up, the
\* catalog has no variant of that digest, and download(digest) still yields
\* the uploaded bytes.
C25_InterruptedUploadIgnored ==
    [][\A t \in Tasks :
          (tasks[t].op = "upload" /\ tasks[t].pc \in {"create_meta", "write_meta"}
              /\ Crash) =>
              /\ up'
              /\ find_by_digest(database', tasks[t].digest) = {}
              /\ tasks[t].digest \in DOMAIN plugin_files'
              /\ plugin_files'[tasks[t].digest] = << tasks[t].bytes >>]_vars

(***************************************************************************)
(* Relocations                                                             *)
(***************************************************************************)
\* the relocations of a call that fall into the descriptor's address range
InRange(relocs) ==
    {i \in 1..Len(relocs) :
        relocs[i].r_offset >= RelocRange.start /\ relocs[i].r_offset < RelocRange.end}

\* C26: for every ELF relocation inside the descriptor's address range whose
\* target field is zero and whose type is 8, 23 or 1027, elf_apply_relocs
\* returns without failing and the field holds (field + addend) mod 2^w, w
\* the width of N, for every signed 64-bit addend; a field that was not zero
\* is left as it was.  Stated for calls in which no field is the target of
\* two relocations.
C26_RelocAddsAddend ==
    (/\ response.op = "relocated"
     /\ \A i \in InRange(response.relocs) : response.relocs[i].r_type \in {8, 23, 1027}
     /\ \A i, j \in InRange(response.relocs) :
            response.relocs[i].r_offset = response.relocs[j].r_offset => i = j) =>
        /\ ~response.panicked
        /\ response.res.ok
        /\ \A f \in 1..Len(response.obj) :
               IF response.obj[f] # Zero(response.n)
               THEN response.out[f] = response.obj[f]
               ELSE \A i \in InRange(response.relocs) :
                        response.relocs[i].r_offset - RelocRange.start + 1 = f =>
                            response.out[f] =
                                [k \in 1..response.n |->
                                    IF response.relocs[i].r_addend = None THEN 0
                                    ELSE response.relocs[i].r_addend[1][k]]

(***************************************************************************)
(* Fat Mach-O binaries                                                     *)
(***************************************************************************)
\* a slice that cannot be parsed, is an archive member, or holds a
\* descriptor that fails to resolve
BadSlice(sl) ==
    \/ ~sl.parses
    \/ sl.archive
    \/ \E i \in 1..Len(sl.exports) : ~sl.exports[i].resolves

HasBadSlice(b) ==
    Bin(b).kind = "Fat" /\ \E i \in 1..Len(Bin(b).slices) : BadSlice(Bin(b).slices[i])

\* C27: for a fat Mach-O with a bad slice parse_descriptors returns an error
\* for the whole binary (never the descriptors of the good slices alone), so
\* no upload of it gets past the parse and nothing of it is persisted.
C27_FatBadSliceRejected ==
    \A b \in Binaries :
        HasBadSlice(b) =>
            /\ \A t \in Tasks :
                   (tasks[t].op = "upload" /\ tasks[t].pc \notin {"idle", "done"}) =>
                       (tasks[t].bytes = b => ~parse_descriptors(b).ok)
            /\ Digest(b) \notin DOMAIN plugin_files
            /\ Digest(b) \notin DOMAIN meta_files
            /\ find_by_digest(database, Digest(b)) = {}

(***************************************************************************)
(* Files that block an upload                                              *)
(***************************************************************************)
\* the catalog holds a variant of the binary for each of its descriptors
CatalogHasVariantsOf(db, b) ==
    LET descriptors == parse_descriptors(b).val
    IN  \A i \in 1..Len(descriptors) :
            \E v \in find_by_digest(db, Digest(b)) : v.descriptor = descriptors[i]

\* C28: whenever an upload of b returns AlreadyExists the catalog contains
\* the variants of sha256(b); between requests no {digest}.plugin file that
\* would block an upload of b exists while the catalog lacks its variants.
C28_AlreadyExistsMeansCatalogued ==
    /\ \A t \in Tasks :
           (tasks[t].op = "upload" /\ tasks[t].pc = "done"
               /\ tasks[t].res = "AlreadyExists") =>
               CatalogHasVariantsOf(database, tasks[t].bytes)
    /\ (up /\ Quiescent) =>
           \A b \in Binaries :
               (parse_descriptors(b).ok /\ plugin_exists(Digest(b))) =>
                   CatalogHasVariantsOf(database, b)

(***************************************************************************)
(* Atomicity of insert_all                                                 *)
(***************************************************************************)
\* C29: a catalog query observes none or all of the variants of an uploaded
\* binary, never a strict subset: the insert_all of an upload either inserts
\* a variant for every descriptor or leaves the catalog unchanged.
C29_InsertAllOrNothing ==
    /\ [][\A t \in Tasks :
             (tasks[t].op = "upload" /\ tasks[t].pc = "insert" /\ tasks'[t].pc = "done") =>
                 \/ database' = database
                 \/ CatalogHasVariantsOf(database', tasks[t].bytes)]_vars
    /\ [](up => \A b \in Binaries :
                    \/ find_by_digest(database, Digest(b)) = {}
                    \/ CatalogHasVariantsOf(database, b))

(***************************************************************************)
(* The is_binary gate                                                      *)
(***************************************************************************)
\* C30: a file of every kind parse_descriptors can dispatch on (PE, ELF,
\* single-architecture Mach-O, fat Mach-O) is accepted by the is_binary gate
\* that the upload handler runs once at least 5 bytes of the file part are
\* buffered: the handler does not answer such a file with BAD_REQUEST, and
\* with 5 bytes buffered the gate has run.
C30_GateAcceptsDispatchedKinds ==
    (response.op = "file_part"
        /\ Object_parse(response.file) \in {"PE", "Mach", "Fat", "ELF"}) =>
        /\ response.status # "BAD_REQUEST"
        /\ (Len(response.data) > 4 => response.checked)
====
